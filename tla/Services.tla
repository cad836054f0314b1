------------------------------ MODULE Services ------------------------------
(***************************************************************************)
(* The processes the other modules run in: what each service needs before  *)
(* it serves, the facts it sends the others and the facts it consumes, how *)
(* it stops, and the two ways a fact travels.  EVENT_PUBLISHING=jetstream  *)
(* puts it on the event stream; EVENT_PUBLISHING=http, the rollback mode,  *)
(* makes its producer call the consumers.  Every service reads the setting *)
(* when it starts and consumes the stream in both modes, so while a        *)
(* setting is rolled out the two modes are mixed.                          *)
(*                                                                         *)
(* A behaviour follows one type of fact, with the services between which   *)
(* it travels, or one service that exchanges none.  What a fact does when  *)
(* it is applied is the other modules' matter.                             *)
(***************************************************************************)
EXTENDS Naturals, Sequences, FiniteSets, SequencesExt

CONSTANTS Followed,    \* the types and services the behaviours follow
          MaxServiceFaults,   \* stops, crashes, outages and lost answers
          MaxSwitches  \* changes of EVENT_PUBLISHING

-----------------------------------------------------------------------------
(* What each service needs, in the order its main asks for it: without it  *)
(* the process ends.  The broker is never needed to start.                 *)

IdentityNeeds == <<"postgres", "redis">>
CatalogNeeds == <<"postgres", "objects", "bucket">>
InventoryNeeds == <<"postgres", "bucket">>
OrderNeeds == <<"postgres", "bucket">>
PaymentNeeds == <<"postgres", "redis", "bucket">>
ShipmentNeeds == <<"postgres", "bucket">>
NotificationNeeds == <<"postgres", "redis">>
ReviewNeeds == <<"postgres", "redis", "objects">>
CartNeeds == <<"postgres">>
AdminNeeds == <<"postgres">>
VendorNeeds == <<"postgres", "objects">>

(* What it sends and consumes once it runs.  sends: for each type, the     *)
(* services its rollback sender calls, in order; onBus: the types it puts  *)
(* on the stream in both modes.                                            *)

None == [t \in {} |-> <<>>]
NoFacts == [sends |-> None, onBus |-> {}, consumes |-> {}]

IdentityRuns == NoFacts
ReviewRuns == NoFacts
CartRuns == NoFacts
AdminRuns == NoFacts

VendorRuns ==
    [sends |-> [vendor_status |-> <<"catalog", "order">>,
                vendor_notice |-> <<"notification">>,
                vendor_policy |-> <<"order">>],
     onBus |-> {}, consumes |-> {}]

(* A variant's price waits for the stream: no service consumes it yet. *)
CatalogRuns ==
    [sends |-> [product_status |-> <<"order">>, variant_price |-> <<>>],
     onBus |-> {}, consumes |-> {"vendor_status", "stock_changed"}]

InventoryRuns ==
    [sends |-> [reservation_expired |-> <<"order">>, stock_changed |-> <<"catalog">>],
     onBus |-> {}, consumes |-> {}]

OrderRuns ==
    [sends |-> [order_notice |-> <<"notification">>,
                fulfillment_ready |-> <<"shipment">>,
                fulfillment_cancelled |-> <<"shipment">>,
                settleable |-> <<"payment">>,
                outcome_rejected |-> <<>>,
                order_vendor_action |-> <<"notification">>,
                order_work_item |-> <<>>],
     onBus |-> {"order_work_item"},
     consumes |-> {"vendor_status", "product_status", "reservation_expired", "shipment_changed",
                   "shipment_exception", "payment_outcome", "refund_outcome", "vendor_policy"}]

PaymentRuns ==
    [sends |-> [payment_outcome |-> <<"order">>,
                refund_outcome |-> <<"order">>,
                payment_notice |-> <<"notification">>,
                payment_vendor_action |-> <<"notification">>,
                payment_work_item |-> <<>>],
     onBus |-> {"payment_work_item"},
     consumes |-> {"settleable", "outcome_rejected"}]

ShipmentRuns ==
    [sends |-> [shipment_changed |-> <<"order">>,
                shipment_exception |-> <<"order">>,
                shipment_work_item |-> <<>>],
     onBus |-> {"shipment_work_item"},
     consumes |-> {"fulfillment_ready", "fulfillment_cancelled"}]

NotificationRuns ==
    [sends |-> None, onBus |-> {},
     consumes |-> {"order_notice", "vendor_notice", "payment_notice", "order_work_item",
                   "payment_work_item", "shipment_work_item", "order_vendor_action",
                   "payment_vendor_action"}]

Needs == [identity |-> IdentityNeeds, catalog |-> CatalogNeeds, inventory |-> InventoryNeeds,
          order |-> OrderNeeds, payment |-> PaymentNeeds, shipment |-> ShipmentNeeds,
          notification |-> NotificationNeeds, review |-> ReviewNeeds, cart |-> CartNeeds,
          admin |-> AdminNeeds, vendor |-> VendorNeeds]
Runs == [identity |-> IdentityRuns, catalog |-> CatalogRuns, inventory |-> InventoryRuns,
         order |-> OrderRuns, payment |-> PaymentRuns, shipment |-> ShipmentRuns,
         notification |-> NotificationRuns, review |-> ReviewRuns, cart |-> CartRuns,
         admin |-> AdminRuns, vendor |-> VendorRuns]

Everyone == DOMAIN Runs
Types == UNION {DOMAIN Runs[s].sends : s \in Everyone}
Producer == [t \in Types |-> CHOOSE s \in Everyone : t \in DOMAIN Runs[s].sends]
Callees == [t \in Types |-> Runs[Producer[t]].sends[t]]
Subscribers == [t \in Types |-> {s \in Everyone : t \in Runs[s].consumes}]
Readers == [t \in Types |-> Subscribers[t] \cup ToSet(Callees[t])]    \* who is to know
OnBusOnly(t) == Callees[t] = <<>>

(* The services a behaviour is about, and what they depend on. *)
Involved == [f \in Followed |-> IF f \in Types THEN {Producer[f]} \cup Readers[f] ELSE {f}]
Depended == [f \in Followed |-> {"nats"} \cup UNION {ToSet(Needs[s]) : s \in Involved[f]}]

VARIABLES fact,       \* the type, or the service, this behaviour follows
          publishing, \* EVENT_PUBLISHING as configured now
          mode,       \* as each service read it when it started
          phase,      \* "down", "starting", "serving", "draining", "stopping"
          started,    \* how many of its needs a starting service has got
          down,       \* the infrastructure that is down
          recorded,   \* the fact is in its producer's outbox
          sent,       \* and marked delivered there
          onStream,     \* the stream holds it
          reading,    \* the services whose consumer is handling it
          appliedBy,    \* the services that applied it
          serviceFaults, switches

servicesVars == <<fact, publishing, mode, phase, started, down, recorded, sent, onStream,
                  reading, appliedBy, serviceFaults, switches>>

IsType == fact \in Types
Working(s) == phase[s] \in {"serving", "draining"}     \* its workers' context is live

ServicesInit ==
    /\ fact \in Followed /\ publishing \in {"jetstream", "http"}
    /\ mode = [s \in Everyone |-> publishing]
    /\ phase = [s \in Everyone |-> "down"] /\ started = [s \in Everyone |-> 0]
    /\ down = {} /\ recorded = FALSE /\ sent = FALSE /\ onStream = FALSE
    /\ reading = {} /\ appliedBy = {} /\ serviceFaults = 0 /\ switches = 0

Fault == serviceFaults < MaxServiceFaults /\ serviceFaults' = serviceFaults + 1

-----------------------------------------------------------------------------
(* Starting and stopping. *)

Start(s) ==
    /\ phase[s] = "down"
    /\ phase' = [phase EXCEPT ![s] = "starting"] /\ started' = [started EXCEPT ![s] = 0]
    /\ mode' = [mode EXCEPT ![s] = publishing]
    /\ UNCHANGED <<fact, publishing, down, recorded, sent, onStream, reading, appliedBy, serviceFaults, switches>>

(* The next need answers, or the process ends and is restarted. *)
GetNeed(s) ==
    /\ phase[s] = "starting" /\ started[s] < Len(Needs[s])
    /\ IF Needs[s][started[s] + 1] \in down
       THEN /\ phase' = [phase EXCEPT ![s] = "down"] /\ UNCHANGED started
       ELSE /\ started' = [started EXCEPT ![s] = @ + 1] /\ UNCHANGED phase
    /\ UNCHANGED <<fact, publishing, mode, down, recorded, sent, onStream, reading, appliedBy, serviceFaults, switches>>

Serve(s) ==
    /\ phase[s] = "starting" /\ started[s] = Len(Needs[s])
    /\ phase' = [phase EXCEPT ![s] = "serving"]
    /\ UNCHANGED <<fact, publishing, mode, started, down, recorded, sent, onStream, reading, appliedBy, serviceFaults, switches>>

(* SIGTERM: no new request is taken while the workers still run. *)
Terminate(s) ==
    /\ phase[s] = "serving" /\ Fault
    /\ phase' = [phase EXCEPT ![s] = "draining"]
    /\ UNCHANGED <<fact, publishing, mode, started, down, recorded, sent, onStream, reading, appliedBy, switches>>

(* The cleanup cancels the workers. *)
StopWorkers(s) ==
    /\ phase[s] = "draining"
    /\ phase' = [phase EXCEPT ![s] = "stopping"]
    /\ UNCHANGED <<fact, publishing, mode, started, down, recorded, sent, onStream, reading, appliedBy, serviceFaults, switches>>

(* bus.Close waits for the message being handled; when that takes longer   *)
(* than the time-out it is abandoned, which is a crash of the consumer.    *)
StopService(s) ==
    /\ phase[s] = "stopping" /\ s \notin reading
    /\ phase' = [phase EXCEPT ![s] = "down"]
    /\ UNCHANGED <<fact, publishing, mode, started, down, recorded, sent, onStream, reading, appliedBy, serviceFaults, switches>>

CrashService(s) ==
    /\ phase[s] # "down" /\ Fault
    /\ phase' = [phase EXCEPT ![s] = "down"] /\ reading' = reading \ {s}
    /\ UNCHANGED <<fact, publishing, mode, started, down, recorded, sent, onStream, appliedBy, switches>>

GoDown(i) ==
    /\ i \notin down /\ Fault /\ down' = down \cup {i}
    /\ UNCHANGED <<fact, publishing, mode, phase, started, recorded, sent, onStream, reading, appliedBy, switches>>
ComeBack(i) ==
    /\ i \in down /\ down' = down \ {i}
    /\ UNCHANGED <<fact, publishing, mode, phase, started, recorded, sent, onStream, reading, appliedBy, serviceFaults, switches>>

(* EVENT_PUBLISHING is changed; a service takes it up when it next starts. *)
Switch ==
    /\ switches < MaxSwitches /\ switches' = switches + 1
    /\ publishing' = IF publishing = "http" THEN "jetstream" ELSE "http"
    /\ UNCHANGED <<fact, mode, phase, started, down, recorded, sent, onStream, reading, appliedBy, serviceFaults>>

-----------------------------------------------------------------------------
(* A fact's way.  Every row operation needs the database. *)

Record ==
    /\ IsType /\ ~recorded /\ phase[Producer[fact]] \in {"serving", "draining"}
    /\ "postgres" \notin down
    /\ recorded' = TRUE
    /\ UNCHANGED <<fact, publishing, mode, phase, started, down, sent, onStream, reading, appliedBy, serviceFaults, switches>>

(* The producer's worker has claimed the row and sends it: it marks the row *)
(* delivered when it hears that it was taken; else the row is tried again. *)
Sending(s) == Working(s) /\ recorded /\ ~sent /\ "postgres" \notin down
ByBus(s) == mode[s] = "jetstream" \/ fact \in Runs[s].onBus

SendByBus ==
    LET s == Producer[fact] IN
    /\ IsType /\ Sending(s) /\ ByBus(s) /\ "nats" \notin down
    /\ onStream' = TRUE
    /\ \/ sent' = TRUE /\ UNCHANGED serviceFaults
       \/ Fault /\ UNCHANGED sent
    /\ UNCHANGED <<fact, publishing, mode, phase, started, down, recorded, reading, appliedBy, switches>>

(* The consumers are called in order, and the first that does not answer   *)
(* ends the attempt.                                                       *)
Answering(c) == phase[c] = "serving" /\ "postgres" \notin down
Reached(cs) == {cs[i] : i \in {k \in DOMAIN cs : \A j \in 1..k : Answering(cs[j])}}
FirstAnswered(cs) == Answering(cs[1])
AllAnswered(cs) == \A i \in DOMAIN cs : Answering(cs[i])

SendByHttp ==
    LET s == Producer[fact] IN
    /\ IsType /\ Sending(s) /\ ~ByBus(s) /\ ~OnBusOnly(fact)
    /\ appliedBy' = appliedBy \cup Reached(Callees[fact])
    /\ \/ sent' = AllAnswered(Callees[fact]) /\ UNCHANGED serviceFaults
       \/ Fault /\ UNCHANGED sent
    /\ UNCHANGED <<fact, publishing, mode, phase, started, down, recorded, onStream, reading, switches>>

(* A durable consumer's message: handled one at a time, acknowledged after *)
(* the commit, and redelivered if its process ends in between.             *)
FetchFact(c) ==
    /\ IsType /\ onStream /\ c \in Subscribers[fact] /\ c \notin reading \cup appliedBy
    /\ Working(c) /\ "nats" \notin down
    /\ reading' = reading \cup {c}
    /\ UNCHANGED <<fact, publishing, mode, phase, started, down, recorded, sent, onStream, appliedBy, serviceFaults, switches>>

Finish(c) ==
    /\ c \in reading /\ "postgres" \notin down
    /\ reading' = reading \ {c} /\ appliedBy' = appliedBy \cup {c}
    /\ UNCHANGED <<fact, publishing, mode, phase, started, down, recorded, sent, onStream, serviceFaults, switches>>

GoOn(s) == Start(s) \/ GetNeed(s) \/ Serve(s) \/ StopWorkers(s) \/ StopService(s)
Consume(s) == FetchFact(s) \/ Finish(s)
Send == SendByBus \/ SendByHttp

ServicesNext ==
    \/ \E s \in Involved[fact] : GoOn(s) \/ Terminate(s) \/ CrashService(s) \/ Consume(s)
    \/ \E i \in Depended[fact] : GoDown(i) \/ ComeBack(i)
    \/ Switch \/ Record \/ Send

ServicesSpec == ServicesInit /\ [][ServicesNext]_servicesVars

-----------------------------------------------------------------------------
(* A fact its producer marked delivered is not lost: the stream holds it or *)
(* every service that is to know applied it, whichever modes the producer  *)
(* ran in and wherever a process ended (an outbox row is done only when the *)
(* broker stored the event or every consumer answered).                    *)
SentIsKept ==
    sent => \/ onStream /\ Readers[fact] = Subscribers[fact]
            \/ Readers[fact] \subseteq appliedBy

(* Once recorded, a fact reaches every service that is to know: those the  *)
(* rollback sender would call and those that subscribe to it.  A fact that *)
(* only the stream carries waits while its producer runs in rollback mode. *)
WaitsForTheStream == /\ OnBusOnly(fact) /\ fact \notin Runs[Producer[fact]].onBus
                     /\ mode[Producer[fact]] = "http"
Arrived == IsType => Readers[fact] \subseteq appliedBy \/ WaitsForTheStream

-----------------------------------------------------------------------------
(***************************************************************************)
(* How one service's call to another ends.  The owner of the facts answers *)
(* by its own rules, or does not get to: it is down, rolled back to a      *)
(* version without the route, does not accept the caller's key, or its     *)
(* answer is lost after the work was done.  Each client turns what arrives *)
(* into done, a refusal with its status, or unknown; the caller ends the   *)
(* operation on the first two and otherwise repeats it under the same id   *)
(* until its attempts are used up.                                         *)
(***************************************************************************)
CONSTANTS Kinds,        \* the calls under study, among AllKinds
          MaxCallAttempts,  \* attempts of a worker before it parks the operation
          MaxCallFaults     \* changes of the owner's condition and timeouts

Inventory == {"reserve", "commit", "release"}
Reads     == {"order_of_payment", "product", "return_destination", "payout_destination", "vendor_order"}
\* Routes younger than their callers' first version: an owner may be running
\* (again) without them, and its router answers 404.
NewRoutes == {"hold", "recovery", "checkout_snapshot", "consume_cart", "refund", "settle",
              "claim_handover", "return_destination", "vendor_action", "shipment_exception"}
\* The clients that take such a 404 for what it is and repeat the call.
KnowsNewRoutes == {"hold", "recovery", "checkout_snapshot"}

\* How the owner's handler says no.
Refusals(k) ==
    CASE k \in {"commit", "release"} -> {"conflict", "missing", "invalid"}
      [] k \in Reads -> {"missing"}
      [] k \in {"reserve", "recovery", "shipment"} -> {"conflict", "invalid"}
      [] k \in {"payment_failed", "hold"} -> {"conflict"}
      [] k = "checkout_snapshot" -> {}    \* what is missing is left out of the answer
      [] OTHER -> {"conflict", "missing", "invalid"}

-----------------------------------------------------------------------------
(* The clients: what each makes of an answer.  "over" is a receipt that    *)
(* shows the operation in another state than the one asked for; "garbled"  *)
(* an answer that does not decode or lacks what was asked.                 *)

Owned == {"conflict", "missing", "invalid"}     \* 409, 404, 400 and the like

InventoryCall(a) == CASE a = "yes" -> "done"
                      [] a = "over" -> "conflict"
                      [] a \in Owned -> a
                      [] OTHER -> "unknown"

RestockRecovery(a) == CASE a \in {"yes", "garbled"} -> "done"
                        [] a \in Owned \ {"missing"} -> a
                        [] OTHER -> "unknown"

CartPost(a) == CASE a \in {"yes", "garbled"} -> "done"     \* Consume reads no answer
                 [] a \in Owned -> a
                 [] OTHER -> "unknown"

PaymentPost(a) == CASE a = "yes" -> "done"
                    [] a \in Owned -> a
                    [] OTHER -> "unknown"

SettleVendorOrder(a) == IF a = "garbled" THEN "done" ELSE PaymentPost(a)

\* Mutant: it takes a missing route for the owner's refusal.
takeNotFound(r) == r
\* A route the owner does not have is asked again, not refused.
retryNotFound(r) == IF r = "missing" THEN "unknown" ELSE r

ShipmentPost(a) == CASE a = "yes" -> "done"
                     [] a \in {"conflict", "invalid"} -> "conflict"
                     [] OTHER -> "unknown"

OrderPost(a) == CASE a \in {"yes", "garbled"} -> "done"
                  [] a \in Owned -> "conflict"
                  [] OTHER -> "unknown"

\* Of a package's events, and of a delivery that failed for good.
SendShipmentEvent(a) == CASE a \in {"yes", "garbled"} -> "done"
                          [] a \in Owned -> "conflict"
                          [] OTHER -> "unknown"

MarkPaymentFailed(a) == CASE a \in {"yes", "garbled"} -> "done"
                          [] a = "conflict" -> "conflict"
                          [] OTHER -> "unknown"

ClaimHandover(a) == CASE a \in {"yes", "garbled"} -> "done"
                      [] a \in {"conflict", "missing"} -> a
                      [] OTHER -> "unknown"

\* Order's notices pass any 4xx on with its status, the key's too.
NotifyPost(a) == CASE a \in {"yes", "garbled"} -> "done"
                   [] a \in Owned \cup {"forbidden"} -> a
                   [] OTHER -> "unknown"

sendNotice(a) == CASE a \in {"yes", "garbled"} -> "done"
                   [] a \in Owned -> a
                   [] OTHER -> "unknown"

ReadOne(a) == IF a = "yes" THEN "done" ELSE IF a = "missing" THEN "missing" ELSE "unknown"

GetCheckoutSnapshot(a) == IF a = "yes" THEN "done" ELSE "unknown"

Result(k, a) ==
    CASE k \in Inventory -> InventoryCall(a)
      [] k \in Reads -> ReadOne(a)
      [] k = "recovery" -> RestockRecovery(a)
      [] k = "consume_cart" -> CartPost(a)
      [] k = "refund" -> PaymentPost(a)
      [] k = "settle" -> SettleVendorOrder(a)
      [] k = "hold" -> retryNotFound(PaymentPost(a))
      [] k = "shipment" -> ShipmentPost(a)
      [] k = "mark_paid" -> OrderPost(a)
      [] k \in {"shipment_event", "shipment_exception"} -> SendShipmentEvent(a)
      [] k = "payment_failed" -> MarkPaymentFailed(a)
      [] k = "claim_handover" -> ClaimHandover(a)
      [] k \in {"notice", "vendor_action"} -> NotifyPost(a)
      [] k = "vendor_notice" -> sendNotice(a)
      [] k = "checkout_snapshot" -> GetCheckoutSnapshot(a)

\* Whether the caller ends the operation as refused.
isPermanent(r) == r \in Owned

Tries(k) == IF k \in Inventory THEN 2 ELSE 1

-----------------------------------------------------------------------------
VARIABLES kind,      \* the call this behaviour is about
          owner,     \* "up", "old" (without the route), "locked" (refuses the key), "failing"
          willing,   \* whether the owner's rules would accept the operation now
          done,   \* "no", "yes", or "over": accepted and ended since (a hold that expired)
          said,      \* what was answered of this operation so far: "yes" and "no" by the
                     \* owner's rules, "absent" by a router without the route
          call,      \* the call under way
          stray,     \* a try its caller gave up is still at the owner
          outcome,   \* at the caller: "open", "done", "refused", "parked"
          attempts, callFaults

callVars == <<kind, owner, willing, done, said, call, stray, outcome, attempts, callFaults>>

NoCall == [state |-> "idle", try |-> 0, answer |-> "none"]

CallsInit ==
    /\ kind \in Kinds /\ owner = "up" /\ willing \in BOOLEAN
    /\ done = "no" /\ said = {} /\ call = NoCall /\ stray = FALSE
    /\ outcome = "open" /\ attempts = 0 /\ callFaults = 0

CallFault == callFaults < MaxCallFaults /\ callFaults' = callFaults + 1

OwnerChanges(to) ==
    /\ owner # to /\ owner' = to
    /\ to = "old" => kind \in NewRoutes
    /\ IF to = "up" THEN UNCHANGED callFaults ELSE CallFault
    /\ UNCHANGED <<kind, willing, done, said, call, stray, outcome, attempts>>

RulesChange ==
    /\ CallFault /\ willing' = ~willing
    /\ UNCHANGED <<kind, owner, done, said, call, stray, outcome, attempts>>

HoldEnds ==
    /\ kind = "reserve" /\ done = "yes" /\ done' = "over"
    /\ UNCHANGED <<kind, owner, willing, said, call, stray, outcome, attempts, callFaults>>

Ask ==
    /\ outcome = "open" /\ call.state = "idle"
    /\ call' = [state |-> "asked", try |-> 1, answer |-> "none"]
    /\ UNCHANGED <<kind, owner, willing, done, said, stray, outcome, attempts, callFaults>>

(* The owner's handler: an operation it accepted once is accepted again,   *)
(* with its state of now.                                                  *)
Handle(a) ==
    \/ done = "over" /\ a = "over" /\ said' = said \cup {"no"} /\ UNCHANGED done
    \/ /\ done = "yes" \/ (done = "no" /\ (willing \/ Refusals(kind) = {}))
       /\ a = "yes" /\ said' = said \cup {"yes"}
       /\ done' = IF kind \in Reads THEN "no" ELSE "yes"
    \/ /\ done = "no" /\ ~willing
       /\ a \in Refusals(kind) /\ said' = said \cup {"no"} /\ UNCHANGED done

\* What the owner answers in its present condition.
Answer(a) ==
    \/ owner = "up" /\ Handle(a)
    \/ owner = "old" /\ a = "missing" /\ said' = said \cup {"absent"} /\ UNCHANGED done
    \/ owner = "locked" /\ a = "forbidden" /\ UNCHANGED <<said, done>>
    \/ owner = "failing" /\ a = "failing" /\ UNCHANGED <<said, done>>

AllAnswers == {"yes", "over", "conflict", "missing", "invalid", "forbidden", "failing"}

AnswerCall(a) ==
    /\ call.state = "asked" /\ Answer(a)
    /\ call' = [call EXCEPT !.state = "answered", !.answer = a]
    /\ UNCHANGED <<kind, owner, willing, stray, outcome, attempts, callFaults>>

(* The work is done and the answer is cut off, or it never arrives.         *)
ServeGarbled ==
    /\ call.state = "asked" /\ owner = "up" /\ CallFault /\ Handle("yes")
    /\ \E a \in {"garbled", "failing"} : call' = [call EXCEPT !.state = "answered", !.answer = a]
    /\ UNCHANGED <<kind, owner, willing, stray, outcome, attempts>>

TimeOut ==
    /\ call.state = "asked" /\ CallFault
    /\ call' = [call EXCEPT !.state = "answered", !.answer = "failing"] /\ stray' = TRUE
    /\ UNCHANGED <<kind, owner, willing, done, said, outcome, attempts>>

ServeStray ==
    /\ stray /\ stray' = FALSE /\ \E a \in AllAnswers : Answer(a)
    /\ UNCHANGED <<kind, owner, willing, call, outcome, attempts, callFaults>>

(* Inventory's client tries once more by itself, unless its caller's own   *)
(* time is up.                                                             *)
TryAgain ==
    /\ call.state = "answered" /\ call.answer = "failing" /\ call.try < Tries(kind)
    /\ call' = [state |-> "asked", try |-> call.try + 1, answer |-> "none"]
    /\ UNCHANGED <<kind, owner, willing, done, said, stray, outcome, attempts, callFaults>>

RecordFailure ==
    /\ attempts' = attempts + 1
    /\ outcome' = IF attempts + 1 >= MaxCallAttempts THEN "parked" ELSE "open"

Receive ==
    /\ call.state = "answered" /\ call' = NoCall
    /\ LET r == Result(kind, call.answer) IN
       \/ r = "done" /\ outcome' = "done" /\ UNCHANGED attempts
       \/ isPermanent(r) /\ outcome' = "refused" /\ UNCHANGED attempts
       \/ r # "done" /\ ~isPermanent(r) /\ RecordFailure
    /\ UNCHANGED <<kind, owner, willing, done, said, stray, callFaults>>

ReplayCall ==
    /\ outcome = "parked" /\ CallFault
    /\ outcome' = "open" /\ attempts' = 0
    /\ UNCHANGED <<kind, owner, willing, done, said, call, stray>>

CallsNext ==
    \/ \E to \in {"up", "old", "locked", "failing"} : OwnerChanges(to)
    \/ RulesChange \/ HoldEnds \/ Ask \/ ServeGarbled \/ TimeOut \/ ServeStray
    \/ \E a \in AllAnswers : AnswerCall(a)
    \/ TryAgain \/ Receive \/ ReplayCall

CallsSpec == CallsInit /\ [][CallsNext]_callVars

-----------------------------------------------------------------------------
(* A caller takes an operation as done only if its owner accepted it.  It   *)
(* takes it as refused - and gives up money, stock or a package - only on  *)
(* the owner's own word, never by an outage, a lost answer or a key the    *)
(* owner does not know yet; where its client does not know the route for a *)
(* later one, also on the 404 of an owner rolled back to a version before  *)
(* it, which reads the same.                                               *)
AnswersAreTheOwners ==
    /\ outcome = "done" => "yes" \in said
    /\ outcome = "refused" => \/ "no" \in said
                              \/ kind \notin KnowsNewRoutes /\ "absent" \in said

(* What the client of the handover claim says of itself: only Order's      *)
(* refusal ends a claim, "anything else is retried by the caller".  A 404  *)
(* ends it too.                                                            *)
RefusedByItsRules == outcome = "refused" => "no" \in said
=============================================================================
