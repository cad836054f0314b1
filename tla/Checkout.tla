------------------------------ MODULE Checkout ------------------------------
(***************************************************************************)
(* The checkout saga of the Order service for one buyer: claiming an       *)
(* idempotency key, creating the order, reserving stock at Inventory,      *)
(* making the order payable, consuming the cart, and the workers that      *)
(* finish or unwind what a dead request left behind.                       *)
(*                                                                         *)
(* A request runs as a process whose steps are its database transactions   *)
(* and HTTP calls; it can die between any two of them, and a call can fail *)
(* for the caller although the other service applied it.  A Reserve call,  *)
(* once sent, may reach Inventory at any later time, any number of times.  *)
(* Inventory is used through its promise (module Reservation).             *)
(*                                                                         *)
(* Buyers share nothing but stock, and stock appears here only as "the     *)
(* reservation may be refused", so one buyer is enough.  All calls under   *)
(* one key carry the same request: another request under a used key is     *)
(* refused without any change.                                             *)
(***************************************************************************)
EXTENDS Naturals, FiniteSets, TLC

CONSTANTS
    Orders,       \* order ids CreateFromPlan can allocate
    Keys,         \* idempotency keys of the buyer
    Requests,     \* concurrent checkout requests
    Workers,      \* Order workers (one per replica)
    NoOrder, NoKey,
    MaxFaults     \* bound on crashes and on database errors

ASSUME MaxFaultsAssumption == MaxFaults \in Nat
ASSUME NoOrderAssumption == NoOrder \notin Orders
ASSUME NoKeyAssumption == NoKey \notin Keys
ASSUME ProcsAssumption == Requests \cap Workers = {}

VARIABLES
    op,        \* checkout_operations, by key
    order,     \* orders: status and checkout_state
    origin,    \* history: the key whose operation created the order
    cart,      \* cart_consumptions.status, by order
    release,   \* the order's release_inventory effect
    receipt,   \* Inventory's receipt, by order
    proc,      \* where each request and worker is
    faults     \* crashes and errors so far

vars == <<op, order, origin, cart, release, receipt, proc, faults>>

Inv == INSTANCE Reservation

Procs == Requests \cup Workers
Idle == [pc |-> "idle", key |-> NoKey, order |-> NoOrder, sticky |-> FALSE]

RequestSteps == {"settle", "plan", "reserve", "abandon", "dropcart", "fail", "ready", "activate"}
WorkerSteps == {"abandon", "dropcart", "fail", "ready", "activate", "dropheld"}

TypeOK ==
    /\ op \in [Keys -> [status : {"none", "preparing", "completed", "failed"},
                        order : Orders \cup {NoOrder}, sticky : BOOLEAN]]
    /\ order \in [Orders -> [status : {"none", "pending_payment", "paid", "cancelled"},
                             checkout : {"none", "preparing", "ready", "failed"}]]
    /\ origin \in [Orders -> Keys \cup {NoKey}]
    /\ cart \in [Orders -> {"none", "held", "pending", "consumed", "cancelled", "parked"}]
    /\ release \in [Orders -> {"none", "pending", "done", "parked"}]
    /\ receipt \in [Orders -> Inv!Statuses]
    /\ proc \in [Procs -> [pc : {"idle"} \cup RequestSteps \cup WorkerSteps, key : Keys \cup {NoKey},
                           order : Orders \cup {NoOrder}, sticky : BOOLEAN]]
    /\ faults \in 0..MaxFaults

Init ==
    /\ op = [k \in Keys |-> [status |-> "none", order |-> NoOrder, sticky |-> FALSE]]
    /\ order = [o \in Orders |-> [status |-> "none", checkout |-> "none"]]
    /\ origin = [o \in Orders |-> NoKey]
    /\ cart = [o \in Orders |-> "none"]
    /\ release = [o \in Orders |-> "none"]
    /\ receipt = [o \in Orders |-> "none"]
    /\ proc = [p \in Procs |-> Idle]
    /\ faults = 0

----------------------------------------------------------------------------
Goto(p, pc) == proc' = [proc EXCEPT ![p].pc = pc]
Stop(p) == proc' = [proc EXCEPT ![p] = Idle]
FaultHappens == faults < MaxFaults /\ faults' = faults + 1

(* A new checkout is refused while one is being prepared or while a cart   *)
(* of the buyer is not settled.                                            *)
OpenCarts == {o \in Orders : cart[o] \in {"held", "pending", "parked"}}

(* Mutant: open carts are not looked at.                                   *)
BusyPreparing == \E k \in Keys : op[k].status = "preparing"

Busy == OpenCarts # {} \/ \E k \in Keys : op[k].status = "preparing"

(* Claims the key: a new operation, or the restart of one that failed for  *)
(* an infrastructure reason (a refusal, 4xx, is sticky and is replayed).   *)
Begin(r, k) ==
    /\ proc[r].pc = "idle"
    /\ op[k].status = "none" \/ (op[k].status = "failed" /\ ~op[k].sticky)
    /\ ~Busy
    /\ op' = [op EXCEPT ![k] = [status |-> "preparing", order |-> NoOrder, sticky |-> FALSE]]
    /\ proc' = [proc EXCEPT ![r] = [Idle EXCEPT !.pc = "settle", !.key = k]]
    /\ UNCHANGED <<order, origin, cart, release, receipt, faults>>

(* settleOpenCartConsumptions: pending tasks are consumed (ConsumeCart);   *)
(* one that is still held or pending then refuses the checkout.            *)
SettleOpenCartConsumptions(r) ==
    /\ proc[r].pc = "settle"
    /\ IF \A o \in Orders : cart[o] \notin {"held", "pending"} THEN Goto(r, "plan")
       ELSE proc' = [proc EXCEPT ![r].pc = "fail", ![r].sticky = TRUE]
    /\ UNCHANGED <<op, order, origin, cart, release, receipt, faults>>

(* Snapshot, pricing, quotes or policies refuse, or a service is down.     *)
PlanFails(r) ==
    /\ proc[r].pc = "plan"
    /\ \E sticky \in BOOLEAN : proc' = [proc EXCEPT ![r].pc = "fail", ![r].sticky = sticky]
    /\ UNCHANGED <<op, order, origin, cart, release, receipt, faults>>

(* One transaction: order, vendor orders, items, the cart task and the     *)
(* link from the operation, which must still be open and unlinked.         *)
CreateFromPlan(r) ==
    LET k == proc[r].key
    IN  /\ proc[r].pc = "plan"
        /\ IF op[k].status = "preparing" /\ op[k].order = NoOrder
           THEN \E o \in {x \in Orders : order[x].status = "none"} :
                   /\ order' = [order EXCEPT ![o] = [status |-> "pending_payment", checkout |-> "preparing"]]
                   /\ origin' = [origin EXCEPT ![o] = k]
                   /\ cart' = [cart EXCEPT ![o] = "held"]
                   /\ op' = [op EXCEPT ![k].order = o]
                   /\ proc' = [proc EXCEPT ![r].pc = "reserve", ![r].order = o]
           ELSE /\ proc' = [proc EXCEPT ![r].pc = "fail", ![r].sticky = TRUE]
                /\ UNCHANGED <<order, origin, cart, op>>
        /\ UNCHANGED <<release, receipt, faults>>

(* A Reserve call reaches Inventory, perhaps long after its caller died.   *)
ReserveArrives(o) ==
    /\ order[o].status # "none"
    /\ Inv!Hold(o)
    /\ UNCHANGED <<op, order, origin, cart, release, proc, faults>>

ReserveAnswers(r) ==
    /\ proc[r].pc = "reserve"
    /\ receipt[proc[r].order] = "held"
    /\ Goto(r, "ready")
    /\ UNCHANGED <<op, order, origin, cart, release, receipt, faults>>

(* Out of stock (sticky), refused, or no answer in time.                   *)
ReserveFails(r) ==
    /\ proc[r].pc = "reserve"
    /\ \E sticky \in BOOLEAN : proc' = [proc EXCEPT ![r].pc = "abandon", ![r].sticky = sticky]
    /\ UNCHANGED <<op, order, origin, cart, release, receipt, faults>>

(* Mutant: no release is queued.                                           *)
CancelWithoutRelease(o) ==
    /\ order' = [order EXCEPT ![o] = [status |-> "cancelled", checkout |-> "failed"]]
    /\ UNCHANGED release
(* cancelLocked: the order lock is held, the release is queued with it.    *)
(* It cancels from whatever status the order has: its callers check.       *)
cancelLocked(o) ==
    /\ order' = [order EXCEPT ![o] = [status |-> "cancelled",
                     checkout |-> IF @.checkout = "preparing" THEN "failed" ELSE @.checkout]]
    /\ release' = [release EXCEPT ![o] = IF @ = "none" THEN "pending" ELSE @]

(* abandonCheckout: its transaction, and the cart task after it.  A failed *)
(* transaction is logged and the rest goes on.  Only an order that is      *)
(* already cancelled is left alone: one that recovery made ready and its   *)
(* buyer paid meanwhile is cancelled.                                      *)
Abandon(p) ==
    LET o == proc[p].order
    IN  /\ proc[p].pc = "abandon"
        /\ IF order[o].status # "cancelled" THEN cancelLocked(o) ELSE UNCHANGED <<order, release>>
        /\ Goto(p, "dropcart")
        /\ UNCHANGED <<op, origin, cart, receipt, faults>>

AbandonErrs(p) ==
    /\ proc[p].pc \in {"abandon", "dropcart"}
    /\ FaultHappens
    /\ Goto(p, IF proc[p].pc = "abandon" THEN "dropcart" ELSE "fail")
    /\ UNCHANGED <<op, order, origin, cart, release, receipt>>

CancelCartTask(o) == cart' = [cart EXCEPT ![o] = IF @ = "held" THEN "cancelled" ELSE @]

DropCart(p) ==
    /\ proc[p].pc = "dropcart"
    /\ CancelCartTask(proc[p].order)
    /\ Goto(p, "fail")
    /\ UNCHANGED <<op, order, origin, release, receipt, faults>>

(* CheckoutOps.Fail, a compare-and-set on 'preparing'.                     *)
FailOperation(p) ==
    LET k == proc[p].key
    IN  /\ proc[p].pc = "fail"
        /\ op' = [op EXCEPT ![k] = IF @.status = "preparing"
                                   THEN [@ EXCEPT !.status = "failed", !.sticky = proc[p].sticky] ELSE @]
        /\ Stop(p)
        /\ UNCHANGED <<order, origin, cart, release, receipt, faults>>

(* One transaction: SetCheckoutState(ready) and Complete, both             *)
(* compare-and-set; either one being stale rolls both back.                *)
(* Mutants: the operation's status is not compared; the order is left out. *)
CanMakeReadyAnyOp(p) == order[proc[p].order].checkout = "preparing"
CompleteOnly(p) ==
    /\ proc[p].pc = "ready"
    /\ op[proc[p].key].status = "preparing"
    /\ op' = [op EXCEPT ![proc[p].key].status = "completed", ![proc[p].key].order = proc[p].order]
    /\ IF p \in Requests THEN Goto(p, "activate") ELSE Stop(p)
    /\ UNCHANGED <<order, origin, cart, release, receipt, faults>>

CanMakeReady(p) == order[proc[p].order].checkout = "preparing" /\ op[proc[p].key].status = "preparing"

MakeReady(p) ==
    /\ proc[p].pc = "ready"
    /\ CanMakeReady(p)
    /\ order' = [order EXCEPT ![proc[p].order].checkout = "ready"]
    /\ op' = [op EXCEPT ![proc[p].key].status = "completed", ![proc[p].key].order = proc[p].order]
    /\ IF p \in Requests THEN Goto(p, "activate") ELSE Stop(p)
    /\ UNCHANGED <<origin, cart, release, receipt, faults>>

(* The ready transaction is stale or fails.  The request goes on to fail   *)
(* its operation; the worker only logs.                                    *)
AfterReadyError(p) ==
    IF p \in Requests THEN proc' = [proc EXCEPT ![p].pc = "fail", ![p].sticky = FALSE] ELSE Stop(p)

ReadyStale(p) ==
    /\ proc[p].pc = "ready"
    /\ ~CanMakeReady(p)
    /\ AfterReadyError(p)
    /\ UNCHANGED <<op, order, origin, cart, release, receipt, faults>>

ReadyErrs(p) ==
    /\ proc[p].pc = "ready"
    /\ FaultHappens
    /\ AfterReadyError(p)
    /\ UNCHANGED <<op, order, origin, cart, release, receipt>>

Activate(p) ==
    /\ proc[p].pc = "activate"
    /\ cart' = [cart EXCEPT ![proc[p].order] = IF @ = "held" THEN "pending" ELSE @]
    /\ Stop(p)
    /\ UNCHANGED <<op, order, origin, release, receipt, faults>>

(* The process dies; what it committed stays.                              *)
Crash(p) ==
    /\ proc[p].pc # "idle"
    /\ FaultHappens
    /\ Stop(p)
    /\ UNCHANGED <<op, order, origin, cart, release, receipt>>

----------------------------------------------------------------------------
(* Mutants: make every order ready whatever Inventory says; skip the       *)
(* operations that have no order.                                          *)
RecoverBlindly(w, k) ==
    /\ proc[w].pc = "idle"
    /\ op[k].status = "preparing" /\ op[k].order # NoOrder
    /\ proc' = [proc EXCEPT ![w] = [pc |-> "ready", key |-> k, order |-> op[k].order, sticky |-> FALSE]]
    /\ UNCHANGED <<op, order, origin, cart, release, receipt, faults>>
RecoverLinked(w, k) ==
    /\ proc[w].pc = "idle"
    /\ op[k].status = "preparing" /\ op[k].order # NoOrder
    /\ proc' = [proc EXCEPT ![w] = [pc |-> IF receipt[op[k].order] = "held" THEN "ready" ELSE "abandon",
                                   key |-> k, order |-> op[k].order, sticky |-> TRUE]]
    /\ UNCHANGED <<op, order, origin, cart, release, receipt, faults>>

(* RecoverCheckouts: what the worker decides for a stale operation.  The   *)
(* operation counts as stale after two minutes; its request may still run. *)
(* A ready order just completes its operation.                             *)
RecoverCheckout(w, k) ==
    LET o == op[k].order
        decide(pc, sticky) ==
            /\ proc' = [proc EXCEPT ![w] = [pc |-> pc, key |-> k, order |-> o, sticky |-> sticky]]
            /\ UNCHANGED op
    IN  /\ proc[w].pc = "idle"
        /\ op[k].status = "preparing"
        /\ IF o = NoOrder THEN decide("fail", FALSE)
           ELSE CASE order[o].checkout = "ready" ->
                         op' = [op EXCEPT ![k].status = "completed"] /\ UNCHANGED proc
                  [] order[o].checkout # "ready" /\ order[o].status = "cancelled" -> decide("fail", TRUE)
                  [] OTHER -> IF receipt[o] \in {"held", "committed"}
                              THEN decide("ready", FALSE) ELSE decide("abandon", TRUE)
        /\ UNCHANGED <<order, origin, cart, release, receipt, faults>>

Working(o) == \E p \in Procs : proc[p].order = o

(* Mutant: a cart without any receipt waits forever.                       *)
ResolveHeldWithReceipt(w, o) ==
    /\ proc[w].pc = "idle"
    /\ cart[o] = "held" /\ receipt[o] # "none"
    /\ proc' = [proc EXCEPT ![w] = [Idle EXCEPT !.order = o,
                    !.pc = IF receipt[o] \in {"held", "committed"} THEN "activate" ELSE "dropheld"]]
    /\ UNCHANGED <<op, order, origin, cart, release, receipt, faults>>

(* resolveHeld: a cart task that stayed held for two minutes follows its   *)
(* order's fate.  Without any receipt it waits 30 minutes, longer than any *)
(* request runs, before it is dropped.                                     *)
ResolveHeld(w, o) ==
    LET decide(pc) == proc' = [proc EXCEPT ![w] = [Idle EXCEPT !.pc = pc, !.order = o]]
    IN  /\ proc[w].pc = "idle"
        /\ cart[o] = "held"
        /\ \/ order[o].status = "cancelled" /\ decide("dropheld")
           \/ order[o].status # "cancelled" /\ receipt[o] \in {"held", "committed"} /\ decide("activate")
           \/ order[o].status # "cancelled" /\ receipt[o] \in {"released", "expired"} /\ decide("dropheld")
           \/ order[o].status # "cancelled" /\ receipt[o] = "none" /\ ~Working(o) /\ decide("dropheld")
        /\ UNCHANGED <<op, order, origin, cart, release, receipt, faults>>

DropHeld(w) ==
    /\ proc[w].pc = "dropheld"
    /\ CancelCartTask(proc[w].order)
    /\ Stop(w)
    /\ UNCHANGED <<op, order, origin, release, receipt, faults>>

(* Cart.Consume is idempotent per operation id; a refusal or the 25th      *)
(* failure parks the task.  Request and worker may try at the same time:   *)
(* an attempt that succeeds after the other one parked still counts.       *)
ConsumeCart(o) ==
    /\ cart[o] \in {"pending", "parked"}
    /\ cart' = [cart EXCEPT ![o] = "consumed"]
    /\ UNCHANGED <<op, order, origin, release, receipt, proc, faults>>

ParkCart(o) ==
    /\ cart[o] = "pending"
    /\ FaultHappens
    /\ cart' = [cart EXCEPT ![o] = "parked"]
    /\ UNCHANGED <<op, order, origin, release, receipt, proc>>

(* The release_inventory effect.  The call may be applied and still fail   *)
(* for Order: then it stays pending and is repeated, or is parked after    *)
(* its last attempt.                                                       *)

(* Mutant: an order without a hold is answered without a tombstone.        *)
ReleaseHeldOnly(o) == IF receipt[o] = "held" THEN Inv!Release(o) ELSE UNCHANGED receipt

ReleaseCall(o) == IF receipt[o] \in {"none", "held"} THEN Inv!Release(o) ELSE UNCHANGED receipt

RunRelease(o) ==
    /\ release[o] = "pending"
    /\ ReleaseCall(o)
    /\ release' = [release EXCEPT ![o] = IF receipt[o] = "committed" THEN "parked" ELSE "done"]
    /\ UNCHANGED <<op, order, origin, cart, proc, faults>>

RunReleaseUnanswered(o) ==
    /\ release[o] = "pending"
    /\ FaultHappens
    /\ ReleaseCall(o) \/ UNCHANGED receipt
    /\ \E status \in {"pending", "parked"} : release' = [release EXCEPT ![o] = status]
    /\ UNCHANGED <<op, order, origin, cart, proc>>

(* An admin replays a parked effect.                                       *)
ReplayEffect(o) ==
    /\ release[o] = "parked"
    /\ release' = [release EXCEPT ![o] = "pending"]
    /\ UNCHANGED <<op, order, origin, cart, receipt, proc, faults>>

----------------------------------------------------------------------------
(* Mutant: like abandonCheckout, only a cancelled order is left alone.     *)
CancellableAny(o) == order[o].status \notin {"none", "cancelled"}
(* CanTransition to cancelled: only an unpaid order.                       *)
Cancellable(o) == order[o].status = "pending_payment"

(* Buyer or admin cancels, or Payment reports a failed payment.            *)
CancelOrder(o) ==
    /\ Cancellable(o)
    /\ cancelLocked(o)
    /\ UNCHANGED <<op, origin, cart, receipt, proc, faults>>

HoldExpires(o) ==
    /\ Inv!Expire(o)
    /\ UNCHANGED <<op, order, origin, cart, release, proc, faults>>

(* Inventory's ReservationExpired event, confirmed against the receipt.    *)
ReservationExpired(o) ==
    /\ receipt[o] = "expired"
    /\ Cancellable(o)
    /\ cancelLocked(o)
    /\ UNCHANGED <<op, origin, cart, receipt, proc, faults>>

(* markPaid under the order lock: Inventory commits first.  Inventory may  *)
(* have committed already for an attempt whose transaction then failed.    *)
Payable(o) == order[o].status = "pending_payment" /\ order[o].checkout = "ready"

(* Mutant: Inventory's refusal to commit is ignored.                       *)
PayWithoutCommit(o) ==
    /\ Payable(o)
    /\ Inv!Commit(o) \/ (receipt[o] # "held" /\ UNCHANGED receipt)
    /\ order' = [order EXCEPT ![o].status = "paid"]
    /\ UNCHANGED <<op, origin, cart, release, proc, faults>>

MarkPaid(o) ==
    /\ Payable(o)
    /\ \/ Inv!Commit(o)
       \/ receipt[o] = "committed" /\ UNCHANGED receipt
    /\ order' = [order EXCEPT ![o].status = "paid"]
    /\ UNCHANGED <<op, origin, cart, release, proc, faults>>

MarkPaidRollsBack(o) ==
    /\ Payable(o)
    /\ FaultHappens
    /\ Inv!Commit(o)
    /\ UNCHANGED <<op, order, origin, cart, release, proc>>

(* The key's 24 hours end: a finished operation no longer answers for it.  *)
KeyExpires(k) ==
    /\ op[k].status \in {"completed", "failed"}
    /\ op' = [op EXCEPT ![k] = [status |-> "none", order |-> NoOrder, sticky |-> FALSE]]
    /\ origin' = [o \in Orders |-> IF origin[o] = k THEN NoKey ELSE origin[o]]
    /\ UNCHANGED <<order, cart, release, receipt, proc, faults>>

----------------------------------------------------------------------------
RequestStep(r) ==
    \/ \E k \in Keys : Begin(r, k)
    \/ SettleOpenCartConsumptions(r) \/ PlanFails(r) \/ CreateFromPlan(r)
    \/ ReserveAnswers(r) \/ ReserveFails(r)

WorkerStep(w) ==
    \/ \E k \in Keys : RecoverCheckout(w, k)
    \/ \E o \in Orders : ResolveHeld(w, o)
    \/ DropHeld(w)

SharedStep(p) ==
    \/ Abandon(p) \/ DropCart(p) \/ FailOperation(p)
    \/ MakeReady(p) \/ ReadyStale(p) \/ Activate(p)

FaultStep(p) == AbandonErrs(p) \/ ReadyErrs(p) \/ Crash(p)

OrderStep(o) ==
    \/ ReserveArrives(o) \/ HoldExpires(o) \/ ReservationExpired(o)
    \/ ConsumeCart(o) \/ ParkCart(o)
    \/ RunRelease(o) \/ RunReleaseUnanswered(o) \/ ReplayEffect(o)
    \/ CancelOrder(o) \/ MarkPaid(o) \/ MarkPaidRollsBack(o)

Next ==
    \/ \E r \in Requests : RequestStep(r)
    \/ \E w \in Workers : WorkerStep(w)
    \/ \E p \in Procs : SharedStep(p) \/ FaultStep(p)
    \/ \E o \in Orders : OrderStep(o)
    \/ \E k \in Keys : KeyExpires(k)

Spec == Init /\ [][Next]_vars

(* A running handler goes on, and the worker loop (every 5 seconds) comes  *)
(* round to every stale operation and every due effect.                    *)
Fairness ==
    /\ \A r \in Requests : WF_vars(SettleOpenCartConsumptions(r) \/ PlanFails(r) \/ ReserveFails(r))
    /\ \A p \in Procs : WF_vars(SharedStep(p))
    /\ \A w \in Workers : WF_vars(DropHeld(w))
    /\ \A k \in Keys : SF_vars(\E w \in Workers : RecoverCheckout(w, k))
    /\ \A o \in Orders : WF_vars(RunRelease(o)) /\ WF_vars(ReservationExpired(o)) /\ WF_vars(cart[o] = "pending" /\ ConsumeCart(o))
    /\ \A o \in Orders : SF_vars(\E w \in Workers : ResolveHeld(w, o))

FairSpec == Spec /\ Fairness

----------------------------------------------------------------------------
(* No stock stays held for a cancelled order: once its release was         *)
(* answered, no Reserve that was delayed on the network can hold again.    *)
NoHoldLeak ==
    \A o \in Orders : order[o].status = "cancelled" /\ release[o] = "done"
                         => receipt[o] \in {"released", "expired"}

(* A buyer is only ever asked to pay for an order whose stock was taken:   *)
(* an order GetForPayment serves has had its hold, and no request or       *)
(* recovery made it ready after the hold was released.                     *)
PayableHasStock == \A o \in Orders : Payable(o) => receipt[o] \notin {"none", "released"}

(* A paid order's stock is sold, and sold stock of an order that was       *)
(* cancelled meanwhile is not forgotten: its release stays queued or       *)
(* parked for review.                                                      *)
SoldStockAccounted ==
    \A o \in Orders :
        /\ order[o].status = "paid" => receipt[o] = "committed"
        /\ receipt[o] = "committed" /\ order[o].status = "cancelled" => release[o] # "done"

(* A replayed key answers with an order the buyer can pay (or that was     *)
(* cancelled after it was ready), and nobody is still preparing it: the    *)
(* transaction that makes the order ready is the one that completes.       *)
CompletedIsReady ==
    \A k \in Keys :
        /\ op[k].status = "completed" => order[op[k].order].checkout = "ready"
        /\ op[k].status = "preparing" /\ op[k].order # NoOrder => order[op[k].order].checkout # "ready"

(* However requests, retries under the same key and recovery interleave,   *)
(* at most one order of a key ever becomes payable.                        *)
OneReadyOrderPerKey ==
    \A o1, o2 \in Orders : o1 # o2 /\ origin[o1] = origin[o2] /\ origin[o1] # NoKey
                              => ~(order[o1].checkout = "ready" /\ order[o2].checkout = "ready")

(* A buyer never has two orders that both still claim the cart: the check  *)
(* in Begin is not undone by a stale request that creates its order late.  *)
OneOpenCart == Cardinality(OpenCarts) <= 1

Abandoning(o) == \E p \in Procs : proc[p].pc = "abandon" /\ proc[p].order = o

(* The order of a finished operation is never reopened: an order that left *)
(* 'preparing' keeps its checkout state, and cancelled is final.  A paid   *)
(* order stays paid but for a request or a worker that found no hold       *)
(* before recovery made the order ready, and then its stock is not given   *)
(* up in silence: the release that Inventory will refuse is queued.        *)
DecidedStaysDecided ==
    [][\A o \in Orders :
          /\ order[o].checkout \in {"ready", "failed"} => order'[o].checkout = order[o].checkout
          /\ order[o].status = "cancelled" => order'[o].status = "cancelled"
          /\ order[o].status = "paid" =>
                \/ order'[o].status = "paid"
                \/ order'[o].status = "cancelled" /\ Abandoning(o) /\ release'[o] = "pending"]_vars

(* "Paid orders are never cancelled into a refund" (lifecycle.go).  The    *)
(* code breaks it: an abandon that was stalled cancels from any status.    *)
PaidStaysPaid == [][\A o \in Orders : order[o].status = "paid" => order'[o].status = "paid"]_vars

(* Recovery ends every checkout operation, so no buyer is refused a new    *)
(* checkout forever ("still being finalized").                             *)
OperationsEnd == \A k \in Keys : op[k].status = "preparing" ~> op[k].status # "preparing"

(* A cart task does not stay held: it follows its order's fate.            *)
HeldCartsEnd == \A o \in Orders : cart[o] = "held" ~> cart[o] # "held"

(* The stock of a cancelled order is given back, or its release is parked  *)
(* where an admin sees it.                                                 *)
CancelledIsReleased ==
    \A o \in Orders : order[o].status = "cancelled"
                         ~> (receipt[o] \in {"released", "expired"} \/ release[o] = "parked")

(* Stock and orders agree whatever fails in between: nothing stays held    *)
(* for a cancelled order whose release was answered, only stock that was   *)
(* taken is paid for, and sold stock is not forgotten.                     *)
StockAccounted == NoHoldLeak /\ PayableHasStock /\ SoldStockAccounted

(* A checkout ends whatever fails in it: its operation, its cart task, and *)
(* the hold of an order that was cancelled.                                *)
CheckoutEnds == OperationsEnd /\ HeldCartsEnd /\ CancelledIsReleased

-----------------------------------------------------------------------------
\* For TLC: the sets whose members are interchangeable.
Symmetry == Permutations(Orders) \cup Permutations(Requests) \cup Permutations(Keys)
=============================================================================
