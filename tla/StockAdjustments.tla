-------------------------- MODULE StockAdjustments --------------------------
(***************************************************************************)
(* How a shop changes its own stock (services/inventory:                   *)
(* usecase/self_service.go, usecase/inventory_usecase.go,                  *)
(* usecase/bulk_operations.go and their repositories).  A person, or the   *)
(* preview of an import, reads the item; later the adjustment arrives with *)
(* the version that was read and a key that makes a retry harmless.  A     *)
(* large receipt waits for one or two admins; a restock request is the     *)
(* older way to ask for units.  Checkouts move the same balance meanwhile. *)
(*                                                                         *)
(* One item of one shop.  Outside the model: Catalog's and Vendor's        *)
(* answers except whether the author may still adjust the stock, which     *)
(* ends at most once.  A refused command changes nothing and is left out.  *)
(***************************************************************************)
EXTENDS Integers, FiniteSets, Naturals

CONSTANTS
  Keys,        \* idempotency keys, each of one adjustment
  Inputs,      \* the adjustments people enter: [kind, quantity]
  Requests, RequestQuantity,
  Returns,     \* goods that come back, once each
  Admins, NoOne,
  InitialQuantity, Limits, SecondApprovalQuantity,
  MaxPolicies, MaxSales

VARIABLES
  item,      \* [available, reserved, version]; version 0: no row yet
  policy,    \* [enabled, limit, version]
  plan,      \* Keys -> what was entered and the version that was read
  op,        \* Keys -> the stored operation
  request,   \* Requests -> [status, first, second]
  returned,  \* the returns put back
  allowed,   \* may the author of the adjustments still adjust this stock?
  checking,  \* Admins -> the operation whose author the admin's decision checked
  sold, sales

vars == <<item, policy, plan, op, request, returned, allowed, checking, sold, sales>>

NoPlan == [kind |-> "none", quantity |-> 0, expected |-> 0]

\* A stored operation: the delta, the policy it was planned under, who approved
\* it, and the stock on hand after it.
AdjustmentReceipt(status, delta) ==
  [status |-> status, delta |-> delta, policy |-> policy.version,
   first |-> NoOne, second |-> NoOne, onHand |-> item.available + item.reserved]
NoOp == [status |-> "none", delta |-> 0, policy |-> 0, first |-> NoOne, second |-> NoOne, onHand |-> 0]

Init ==
  /\ item = [available |-> 0, reserved |-> 0, version |-> 0]
  /\ policy = [enabled |-> FALSE, limit |-> 0, version |-> 0]
  /\ plan = [k \in Keys |-> NoPlan]
  /\ op = [k \in Keys |-> NoOp]
  /\ request = [r \in Requests |-> [status |-> "none", first |-> NoOne, second |-> NoOne]]
  /\ returned = {}
  /\ allowed = TRUE
  /\ checking = [a \in Admins |-> NoOne]
  /\ sold = 0 /\ sales = 0

Exists == item.version > 0

\* Every write of the row advances its version.
Move(available, reserved) ==
  item' = [available |-> item.available + available, reserved |-> item.reserved + reserved,
           version |-> item.version + 1]

-----------------------------------------------------------------------------
(* The item, and the checkouts that use it.                                *)

\* Only somebody who may adjust the stock of the shop that owns the product.
VerifyItemOwnership == allowed

CreateItem ==
  /\ ~Exists /\ VerifyItemOwnership
  /\ item' = [available |-> InitialQuantity, reserved |-> 0, version |-> 1]
  /\ UNCHANGED <<policy, plan, op, request, returned, allowed, checking, sold, sales>>

Reserve ==
  /\ Exists /\ item.available >= 1 /\ sales < MaxSales /\ sales' = sales + 1
  /\ Move(-1, 1)
  /\ UNCHANGED <<policy, plan, op, request, returned, allowed, checking, sold>>

Release ==
  /\ item.reserved >= 1 /\ Move(1, -1)
  /\ UNCHANGED <<policy, plan, op, request, returned, allowed, checking, sold, sales>>

Commit ==
  /\ item.reserved >= 1 /\ Move(0, -1) /\ sold' = sold + 1
  /\ UNCHANGED <<policy, plan, op, request, returned, allowed, checking, sales>>

\* Returned or recovered goods, once per id.
RestockReturn(r) ==
  /\ Exists /\ r \notin returned /\ returned' = returned \cup {r}
  /\ Move(1, 0)
  /\ UNCHANGED <<policy, plan, op, request, allowed, checking, sold, sales>>

AccessEnds ==
  /\ allowed /\ allowed' = FALSE
  /\ UNCHANGED <<item, policy, plan, op, request, returned, checking, sold, sales>>

-----------------------------------------------------------------------------
(* The policy.                                                             *)

\* An admin's change counts if it was made to the version that still stands.
UpdatePolicy(enabled, limit) ==
  /\ policy.version < MaxPolicies
  /\ policy' = [enabled |-> enabled, limit |-> limit, version |-> policy.version + 1]
  /\ UNCHANGED <<item, plan, op, request, returned, allowed, checking, sold, sales>>

-----------------------------------------------------------------------------
(* Adjustments.                                                            *)

Normalize(a) ==
  CASE a.kind = "receipt"    -> a.quantity > 0
    [] a.kind = "damage"     -> a.quantity < 0
    [] a.kind = "correction" -> a.quantity # 0
    [] a.kind = "count"      -> a.quantity >= 0

\* A person reads the item and enters what they found.
ReadItem(k, a) ==
  /\ Exists /\ allowed /\ plan[k] = NoPlan /\ Normalize(a)
  /\ plan' = [plan EXCEPT ![k] = [kind |-> a.kind, quantity |-> a.quantity, expected |-> item.version]]
  /\ UNCHANGED <<item, policy, op, request, returned, allowed, checking, sold, sales>>

\* Imports are open to shops whose self-service is on.
Available == policy.enabled

\* The preview of an imported receipt keeps the version it was computed from.
PlanReceipt(k, a) ==
  /\ Available /\ a.kind = "receipt"
  /\ ReadItem(k, a)

DeltaOf(p) == IF p.kind = "count" THEN p.quantity - (item.available + item.reserved) ELSE p.quantity

\* Units that customers hold cannot be taken away.
FitsBesideHolds(delta) == delta >= -item.available

AnyStock(k) == TRUE

\* Nothing has moved the stock since the author, or the preview, read it.
StockUnchanged(k) == item.version = plan[k].expected

\* The balance and the movement are written with the operation.
Apply(k, receipt, delta) ==
  /\ Move(delta, 0)
  /\ op' = [op EXCEPT ![k] = [receipt EXCEPT !.status = "applied", !.onHand = item.available + item.reserved + delta]]

\* Under the shop's policy lock, and once per key: a repeat gets the stored
\* receipt.  A shortage is kept as work for an admin, a large receipt waits.
Adjust(k) ==
  LET delta == DeltaOf(plan[k])
  IN  /\ plan[k] # NoPlan /\ op[k].status = "none"
      /\ allowed /\ policy.enabled /\ StockUnchanged(k)
      /\ CASE ~FitsBesideHolds(delta) ->
                op' = [op EXCEPT ![k] = AdjustmentReceipt("reserved_stock_conflict", 0)] /\ UNCHANGED item
           [] FitsBesideHolds(delta) /\ delta > policy.limit ->
                op' = [op EXCEPT ![k] = AdjustmentReceipt("approval_required", delta)] /\ UNCHANGED item
           [] OTHER -> Apply(k, AdjustmentReceipt("applied", delta), delta)
      /\ UNCHANGED <<policy, plan, request, returned, allowed, checking, sold, sales>>

\* Before an approval, and without the lock, an admin's request checks that the
\* author may still adjust the stock.
CheckAuthor(a, k) ==
  /\ op[k].status = "approval_required" /\ allowed
  /\ checking' = [checking EXCEPT ![a] = k]
  /\ UNCHANGED <<item, policy, plan, op, request, returned, allowed, sold, sales>>

Large(quantity) == SecondApprovalQuantity > 0 /\ quantity >= SecondApprovalQuantity

AnyAdmin(first, admin) == TRUE

\* The admin who approved first cannot be the second.
OtherAdmin(first, admin) == first # admin

SamePolicy(k) == policy.enabled /\ policy.version = op[k].policy

\* The delta was computed from the stock as it was read: it is applied to the
\* same stock, under the same policy, or not at all.
Approve(a, k) ==
  /\ checking[a] = k /\ checking' = [checking EXCEPT ![a] = NoOne]
  /\ op[k].status = "approval_required"
  /\ SamePolicy(k) /\ StockUnchanged(k) /\ FitsBesideHolds(op[k].delta)
  /\ \/ /\ Large(op[k].delta) /\ op[k].first = NoOne
        /\ op' = [op EXCEPT ![k].first = a] /\ UNCHANGED item
     \/ /\ Large(op[k].delta) => op[k].first # NoOne /\ OtherAdmin(op[k].first, a)
        /\ Apply(k, [op[k] EXCEPT !.second = a], op[k].delta)
  /\ UNCHANGED <<policy, plan, request, returned, allowed, sold, sales>>

\* A rejection and the end of a shortage's investigation move nothing.
Close(k) ==
  /\ op[k].status \in {"approval_required", "reserved_stock_conflict"}
  /\ op' = [op EXCEPT ![k].status = IF @ = "approval_required" THEN "rejected" ELSE "resolved"]
  /\ UNCHANGED <<item, policy, plan, request, returned, allowed, checking, sold, sales>>

-----------------------------------------------------------------------------
(* Restock requests.                                                       *)

RequestRestock(r) ==
  /\ Exists /\ VerifyItemOwnership /\ request[r].status = "none"
  /\ request' = [request EXCEPT ![r].status = "pending"]
  /\ UNCHANGED <<item, policy, plan, op, returned, allowed, checking, sold, sales>>

\* A decision is final.
CanTransitionRestock(r) == request[r].status = "pending"

NeedsSecondApproval == Large(RequestQuantity)

RecordFirstApproval(r, a) == request' = [request EXCEPT ![r].first = a]
UpdateStatus(r, status, a) == request' = [request EXCEPT ![r].status = status, ![r].second = a]

Restock == Move(RequestQuantity, 0)

\* The request's row is locked; the units and the decision are one write.
ApproveRestockRequest(r, a) ==
  /\ CanTransitionRestock(r)
  /\ \/ /\ NeedsSecondApproval /\ request[r].first = NoOne
        /\ RecordFirstApproval(r, a) /\ UNCHANGED item
     \/ /\ NeedsSecondApproval => request[r].first # NoOne /\ OtherAdmin(request[r].first, a)
        /\ UpdateStatus(r, "approved", a) /\ Restock
  /\ UNCHANGED <<policy, plan, op, returned, allowed, checking, sold, sales>>

RejectRestockRequest(r, a) ==
  /\ CanTransitionRestock(r) /\ UpdateStatus(r, "rejected", a)
  /\ UNCHANGED <<item, policy, plan, op, returned, allowed, checking, sold, sales>>

-----------------------------------------------------------------------------
Next ==
  \/ CreateItem \/ Reserve \/ Release \/ Commit \/ AccessEnds
  \/ \E r \in Returns : RestockReturn(r)
  \/ \E enabled \in BOOLEAN, limit \in Limits : UpdatePolicy(enabled, limit)
  \/ \E k \in Keys :
       \/ \E a \in Inputs : ReadItem(k, a) \/ PlanReceipt(k, a)
       \/ Adjust(k) \/ Close(k)
       \/ \E a \in Admins : CheckAuthor(a, k) \/ Approve(a, k)
  \/ \E r \in Requests :
       \/ RequestRestock(r)
       \/ \E a \in Admins : ApproveRestockRequest(r, a) \/ RejectRestockRequest(r, a)

Spec == Init /\ [][Next]_vars

-----------------------------------------------------------------------------
\* A count says what is on the shelves when it is applied, however long it
\* waited for approval and whatever checkouts, restocks and returns did in
\* between (self_service.go Adjust and Decide).
CountsAreExact ==
  \A k \in Keys : op[k].status = "applied" /\ plan[k].kind = "count" => op[k].onHand = plan[k].quantity

\* A change large enough for two admins that waited for approval had two
\* different ones, on either way into the stock.
LargeChangesByTwo ==
  /\ \A k \in Keys : (op[k].status = "applied" /\ op[k].second # NoOne /\ Large(op[k].delta))
                       => op[k].first \notin {NoOne, op[k].second}
  /\ \A r \in Requests : (request[r].status = "approved" /\ Large(RequestQuantity))
                           => request[r].first \notin {NoOne, request[r].second}

SumOf(f, S) ==
  LET n[T \in SUBSET S] == IF T = {} THEN 0 ELSE LET x == CHOOSE y \in T : TRUE IN f[x] + n[T \ {x}]
  IN  n[S]

-----------------------------------------------------------------------------
(***************************************************************************)
(* Low-stock alerts (services/inventory: the trigger of migration 000010,  *)
(* repository/self_service.go, usecase/stock_alert.go).  A balance below   *)
(* the owner's threshold opens an episode in the transaction that moved    *)
(* the stock; a worker claims it for a minute, tells Notification outside  *)
(* any transaction and records the outcome.  After five failures, or a     *)
(* refusal, the episode waits for an admin.                                *)
(*                                                                         *)
(* Notification knows an episode by its id.  Whatever moves the stock is   *)
(* one action; the number of moves and of setting changes is bounded.      *)
(***************************************************************************)
CONSTANTS MaxQuantity, Thresholds, Workers, MaxAttempts,
          MaxChanges, MaxRetries, MaxStalls

VARIABLES
  watched,      \* [available, threshold, enabled, active, episode]
  episode,   \* 1..MaxChanges -> [attempts, leased, delivered]
  claim,     \* the number of claims each episode has seen
  worker,    \* Workers -> the episode it delivers, which claim, and the answer
  accepted,  \* the episodes Notification has accepted
  changes, retries, stalls

alertsVars == <<watched, episode, claim, worker, accepted, changes, retries, stalls>>

Idle == [episode |-> 0, attempt |-> 0, claim |-> 0, answer |-> "none"]
Episodes == 1..MaxChanges

AlertsInit ==
  /\ watched = [available |-> MaxQuantity, threshold |-> 0, enabled |-> FALSE, active |-> FALSE, episode |-> 0]
  /\ episode = [e \in Episodes |-> [attempts |-> 0, leased |-> FALSE, delivered |-> FALSE]]
  /\ claim = [e \in Episodes |-> 0]
  /\ worker = [w \in Workers |-> Idle]
  /\ accepted = {}
  /\ changes = 0 /\ retries = 0 /\ stalls = 0

-----------------------------------------------------------------------------
(* The item.                                                               *)

Low(i) == i.available < i.threshold

TriggeredByFalls(new) ==
  IF ~Low(new) /\ new.available > watched.available THEN [new EXCEPT !.active = FALSE]
  ELSE IF new.enabled /\ Low(new) /\ new.available < watched.available /\ ~watched.active
       THEN [new EXCEPT !.active = TRUE, !.episode = watched.episode + 1]
       ELSE new

\* The trigger on every write of the row: a rise to the threshold ends the
\* alert; a balance below it opens an episode unless one is already open.
Triggered(new) ==
  IF ~Low(new) /\ new.available > watched.available THEN [new EXCEPT !.active = FALSE]
  ELSE IF new.enabled /\ Low(new) /\ ~watched.active
       THEN [new EXCEPT !.active = TRUE, !.episode = watched.episode + 1]
       ELSE new

Write(new) ==
  /\ changes < MaxChanges /\ changes' = changes + 1
  /\ watched' = Triggered(new)
  /\ UNCHANGED <<episode, claim, worker, accepted, retries, stalls>>

\* A sale, a receipt, a return, a release: any writer of the balance.
MoveStock(available) ==
  /\ available # watched.available /\ Write([watched EXCEPT !.available = available])

\* The settings change if the item is still at the version that was read.
SetAlerts(threshold, enabled) ==
  /\ threshold # watched.threshold \/ enabled # watched.enabled
  /\ Write([watched EXCEPT !.threshold = threshold, !.enabled = enabled])

-----------------------------------------------------------------------------
(* The worker.                                                             *)

\* An episode that is due is leased to one worker for a minute.
Claimable(e) ==
  /\ e <= watched.episode /\ ~episode[e].delivered
  /\ episode[e].attempts < MaxAttempts /\ ~episode[e].leased

ClaimAlert(w, e) ==
  /\ worker[w] = Idle /\ Claimable(e)
  /\ episode' = [episode EXCEPT ![e].attempts = @ + 1, ![e].leased = TRUE]
  /\ claim' = [claim EXCEPT ![e] = @ + 1]
  /\ worker' = [worker EXCEPT ![w] = [episode |-> e, attempt |-> episode[e].attempts + 1,
                                     claim |-> claim[e] + 1, answer |-> "waiting"]]
  /\ UNCHANGED <<watched, accepted, changes, retries, stalls>>

\* Notification accepts and answers, accepts and the answer is lost, fails, or
\* refuses.
Send(w, answer, accepts) ==
  /\ worker[w].answer = "waiting"
  /\ worker' = [worker EXCEPT ![w].answer = answer]
  /\ accepted' = IF accepts THEN accepted \cup {worker[w].episode} ELSE accepted
  /\ UNCHANGED <<watched, episode, claim, changes, retries, stalls>>

\* The attempt the worker claimed is still the last one.
Holds(w) ==
  LET e == worker[w].episode
  IN  episode[e].attempts = worker[w].attempt /\ ~episode[e].delivered

Finished(w, success) ==
  LET e == worker[w].episode
  IN  IF Holds(w) THEN episode' = [episode EXCEPT ![e].delivered = success, ![e].leased = FALSE]
      ELSE UNCHANGED episode

FinishAlert(w) ==
  /\ worker[w].answer \in {"accepted", "failed"} /\ Finished(w, worker[w].answer = "accepted")
  /\ worker' = [worker EXCEPT ![w] = Idle]
  /\ UNCHANGED <<watched, claim, accepted, changes, retries, stalls>>

\* A refusal will not change by itself: an admin has to look.
ParkAlert(w) ==
  LET e == worker[w].episode
  IN  /\ worker[w].answer = "refused"
      /\ IF Holds(w) THEN episode' = [episode EXCEPT ![e].attempts = MaxAttempts] ELSE UNCHANGED episode
      /\ worker' = [worker EXCEPT ![w] = Idle]
      /\ UNCHANGED <<watched, claim, accepted, changes, retries, stalls>>

\* A minute passes; the attempt takes at most ten seconds unless its worker is
\* held up or stopped.
LeaseEnds(e) ==
  /\ episode[e].leased /\ episode' = [episode EXCEPT ![e].leased = FALSE]
  /\ IF \E w \in Workers : worker[w].episode = e /\ worker[w].claim = claim[e]
     THEN stalls < MaxStalls /\ stalls' = stalls + 1 ELSE UNCHANGED stalls
  /\ UNCHANGED <<watched, claim, worker, accepted, changes, retries>>

Stop(w) ==
  /\ worker[w] # Idle /\ stalls < MaxStalls /\ stalls' = stalls + 1
  /\ worker' = [worker EXCEPT ![w] = Idle]
  /\ UNCHANGED <<watched, episode, claim, accepted, changes, retries>>

Parked(e) == episode[e].attempts >= MaxAttempts /\ ~episode[e].delivered

\* An admin sends a parked episode again, due at once.
RetryAlert(e) ==
  /\ e <= watched.episode /\ Parked(e)
  /\ retries < MaxRetries /\ retries' = retries + 1
  /\ episode' = [episode EXCEPT ![e].attempts = 0, ![e].leased = FALSE]
  /\ UNCHANGED <<watched, claim, worker, accepted, changes, stalls>>

-----------------------------------------------------------------------------
AlertsNext ==
  \/ \E available \in 0..MaxQuantity : MoveStock(available)
  \/ \E threshold \in Thresholds, enabled \in BOOLEAN : SetAlerts(threshold, enabled)
  \/ \E w \in Workers :
       \/ \E e \in Episodes : ClaimAlert(w, e)
       \/ Send(w, "accepted", TRUE) \/ \E accepts \in BOOLEAN : Send(w, "failed", accepts)
       \/ Send(w, "refused", FALSE)
       \/ FinishAlert(w) \/ ParkAlert(w) \/ Stop(w)
  \/ \E e \in Episodes : LeaseEnds(e) \/ RetryAlert(e)

AlertsSpec == AlertsInit /\ [][AlertsNext]_alertsVars

-----------------------------------------------------------------------------
\* Whichever write made it so - a sale, a higher threshold, alerts switched on
\* - a balance below an enabled threshold has an open episode (migration
\* 000010), and a delivered episode was accepted by Notification.
LowStockIsAnnounced ==
  /\ watched.enabled /\ Low(watched) => watched.active /\ watched.episode > 0
  /\ \A e \in Episodes : episode[e].delivered => e \in accepted

-----------------------------------------------------------------------------
(***************************************************************************)
(* Inventory's reconciliation of one reservation with its order.  The two  *)
(* live in different databases: a job reads the reservation, asks Order    *)
(* for the status over HTTP, and writes what it makes of the two.  Between *)
(* its reads and its write either side moves on.  An operator reads the    *)
(* list of issues and repairs: releases the stock of a cancelled order,    *)
(* adopts a hold older than the deadlines, replays what was given up.      *)
(***************************************************************************)
CONSTANTS
  MaxReleases,   \* deliveries of the event before it is parked (10)
  MaxFaults,     \* bound: requests to Order that fail
  MaxRepairs     \* bound: repairs asked for

VARIABLES
  operation,   \* reservation_operations: status, legacy, reconciled_at is due, issue
  overdue,     \* the hold's deadline has passed
  order,       \* the order's status, in Order's database
  event,       \* inventory_outbox: "none", "pending" or "delivered", and its attempts
  reading,     \* what Reconcile holds: nothing, the status read, then the order's too
  repair,      \* the repair whose order was read: None or its action
  budget       \* faults and repairs left

driftVars == <<operation, overdue, order, event, reading, repair, budget>>

None == "none"
NoReading == [status |-> None, answer |-> None]
Terminal == {"released", "expired"}

DriftInit ==
  /\ \E legacy \in BOOLEAN :
       operation = [status |-> "held", legacy |-> legacy, due |-> TRUE, issue |-> <<>>]
  /\ order \in {"missing", "pending_payment"}
  /\ overdue = FALSE /\ event = [state |-> "none", attempts |-> 0]
  /\ reading = NoReading /\ repair = None
  /\ budget = [faults |-> MaxFaults, repairs |-> MaxRepairs]

(* What the two statuses make of each other; "unavailable" is no answer. *)
Issue(status, answer) ==
  CASE answer = "unavailable" -> <<"order_unavailable">>
    [] answer = "missing" -> <<"order_missing">>
    [] status = "held" /\ answer \notin {"unavailable", "missing", "pending_payment"} ->
         <<"held_order", answer>>
    [] status = "committed" /\ answer \in {"pending_payment", "cancelled"} ->
         <<"committed_order", answer>>
    [] status \in Terminal /\ answer \notin {"unavailable", "missing", "cancelled"} ->
         <<"terminal_stock_order", answer>>
    [] OTHER -> <<>>

(* finish: the stock moves; only an expiry is announced to Order. *)
Finish(target) ==
  /\ operation' = [operation EXCEPT !.status = target]
  /\ event' = IF target = "expired" THEN [state |-> "pending", attempts |-> 0] ELSE event

---------------------------------------------------------------------------
(* What Order does meanwhile. *)
OrderCommits ==
  /\ order = "pending_payment" /\ operation.status = "held" /\ ~overdue
  /\ Finish("committed")
  /\ UNCHANGED <<overdue, order, reading, repair, budget>>

OrderIsPaid ==
  /\ order = "pending_payment" /\ operation.status = "committed"
  /\ order' = "paid"
  /\ UNCHANGED <<operation, overdue, event, reading, repair, budget>>

OrderCancels ==
  /\ order = "pending_payment" /\ operation.status # "committed"
  /\ order' = "cancelled"
  /\ UNCHANGED <<operation, overdue, event, reading, repair, budget>>

OrderReleases ==
  /\ order = "cancelled" /\ operation.status = "held"
  /\ Finish("released")
  /\ UNCHANGED <<overdue, order, reading, repair, budget>>

DeadlinePasses ==
  /\ ~overdue /\ overdue' = TRUE
  /\ UNCHANGED <<operation, order, event, reading, repair, budget>>

---------------------------------------------------------------------------
(* The worker. *)
ExpireOne ==
  /\ operation.status = "held" /\ ~operation.legacy /\ overdue
  /\ Finish("expired")
  /\ UNCHANGED <<overdue, order, reading, repair, budget>>

Deliverable == event.state = "pending" /\ event.attempts < MaxReleases

(* Order takes the event: an order still waiting for its payment is        *)
(* cancelled, any other keeps its status.                                  *)
Publish ==
  /\ Deliverable
  /\ event' = [event EXCEPT !.state = "delivered"]
  /\ order' = IF order = "pending_payment" THEN "cancelled" ELSE order
  /\ UNCHANGED <<operation, overdue, reading, repair, budget>>

PublishFails ==
  /\ Deliverable /\ budget.faults > 0
  /\ event' = [event EXCEPT !.attempts = @ + 1]
  /\ budget' = [budget EXCEPT !.faults = @ - 1]
  /\ UNCHANGED <<operation, overdue, order, reading, repair>>

(* A minute passes since the last look. *)
MinutePasses ==
  /\ ~operation.due /\ operation' = [operation EXCEPT !.due = TRUE]
  /\ UNCHANGED <<overdue, order, event, reading, repair, budget>>

Candidate == operation.due

ReadOperation ==
  /\ reading = NoReading /\ Candidate
  /\ reading' = [status |-> operation.status, answer |-> None]
  /\ UNCHANGED <<operation, overdue, order, event, repair, budget>>

AskOrder ==
  /\ reading # NoReading /\ reading.answer = None
  /\ \/ reading' = [reading EXCEPT !.answer = order] /\ UNCHANGED budget
     \/ /\ budget.faults > 0 /\ budget' = [budget EXCEPT !.faults = @ - 1]
        /\ reading' = [reading EXCEPT !.answer = "unavailable"]
  /\ UNCHANGED <<operation, overdue, order, event, repair>>

(* Written only to the operation as it was read; otherwise the next round  *)
(* finds it still due.                                                     *)
Observe ==
  /\ reading # NoReading /\ reading.answer # None
  /\ operation' = IF operation.status = reading.status
       THEN [operation EXCEPT !.due = FALSE, !.issue = Issue(reading.status, reading.answer)]
       ELSE operation
  /\ reading' = NoReading
  /\ UNCHANGED <<overdue, order, event, repair, budget>>

Reconcile == ReadOperation \/ AskOrder \/ Observe

(* The batch ends (30 s) or the process stops between two steps. *)
ReconcileStops ==
  /\ reading # NoReading /\ budget.faults > 0
  /\ reading' = NoReading /\ budget' = [budget EXCEPT !.faults = @ - 1]
  /\ UNCHANGED <<operation, overdue, order, event, repair>>

---------------------------------------------------------------------------
(* The operator.  The two repairs that trust Order's status ask for it     *)
(* before they lock the operation.                                         *)
AllowedAny(action) == order # "missing"

Allowed(action) ==
  \/ action = "release_cancelled" /\ order = "cancelled"
  \/ action = "adopt_legacy" /\ order = "pending_payment"
  \/ action = "replay"

StartRepair(action) ==
  /\ repair = None /\ budget.repairs > 0 /\ Allowed(action)
  /\ repair' = action /\ budget' = [budget EXCEPT !.repairs = @ - 1]
  /\ UNCHANGED <<operation, overdue, order, event, reading>>

ReleaseCancelled ==
  /\ repair = "release_cancelled" /\ repair' = None
  /\ IF operation.status = "held" THEN Finish("released") ELSE UNCHANGED <<operation, event>>
  /\ UNCHANGED <<overdue, order, reading, budget>>

AdoptLegacy ==
  /\ repair = "adopt_legacy" /\ repair' = None
  /\ operation' = IF operation.status = "held" /\ ~overdue
                    THEN [operation EXCEPT !.legacy = FALSE, !.due = TRUE] ELSE operation
  /\ UNCHANGED <<overdue, order, event, reading, budget>>

Replay ==
  /\ repair = "replay" /\ repair' = None
  /\ event' = IF event.state = "none" THEN event ELSE [state |-> "pending", attempts |-> 0]
  /\ operation' = [operation EXCEPT !.due = TRUE]
  /\ UNCHANGED <<overdue, order, reading, budget>>

Repair == ReleaseCancelled \/ AdoptLegacy \/ Replay

DriftNext ==
  \/ OrderCommits \/ OrderIsPaid \/ OrderCancels \/ OrderReleases \/ DeadlinePasses
  \/ ExpireOne \/ Publish \/ PublishFails \/ MinutePasses
  \/ Reconcile \/ ReconcileStops \/ Repair
  \/ \E action \in {"release_cancelled", "adopt_legacy", "replay"} : StartRepair(action)

DriftSpec == DriftInit /\ [][DriftNext]_driftVars

---------------------------------------------------------------------------
(* Only the stock of a cancelled order goes back to sale without the       *)
(* hold's deadline having passed, however late the operator's release      *)
(* comes.                                                                  *)
ReleasedOrderIsCancelled == operation.status = "released" => order = "cancelled"

=============================================================================
