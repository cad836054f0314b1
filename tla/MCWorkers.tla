------------------------------ MODULE MCWorkers ------------------------------
(***************************************************************************)
(* The background work that finishes what requests began, for TLC: the     *)
(* event bus, the stock worker and its outbox, payment outcomes sent by    *)
(* bus, the delivery of notices, a shop's notices, the services that start *)
(* and stop under all of them, and the calls they make.  One behaviour     *)
(* moves one of them: focus names it, and the others stay as they began.   *)
(***************************************************************************)
EXTENDS EventBus, Services, TLC

CONSTANTS
    Components,    \* the components this run moves
    Workers, RetryAttempts, AttemptCap, MaxRetries, NoticeFaults,
    ShopEvents, ShopWorkers, Users, Owner, MaxShopAttempts, MaxShopRetries, MaxStalls, MaxChanges

VARIABLE focus         \* the component that moves
VARIABLES stocked, available, reserved, op, movements, stockOutbox, opening   \* Inventory
VARIABLES intent, sync, outcomeSent, order, record, receipt, outcomeEvent, report,
          rejection    \* PaymentOutcome
VARIABLES notice, log, noticeSent, jobs, worker, retries, noticeFaults, noticeEvent, claim, members,
          optIn, read, consents, shopWorker, clock, items, page, shopRetries, stalls, changes   \* Notices

StockOrders == {1, 2}
CartsDef == {("i1" :> 1) @@ ("i2" :> 1), ("i1" :> 2) @@ ("i2" :> 0)}

I == INSTANCE Inventory WITH
       Orders <- StockOrders, Items <- {"i1", "i2"}, MaxLine <- 2, Carts <- CartsDef,
       MaxStock <- 2, Receipts <- {}, MaxAttempts <- 2, ExpiryEnabled <- TRUE,
       outbox <- stockOutbox
P == INSTANCE PaymentOutcome WITH
       Orders <- {"o1"}, Payments <- {"p1"}, OrderOf <- [p \in {"p1"} |-> "o1"], UseBus <- TRUE,
       sent <- outcomeSent, event <- outcomeEvent
N == INSTANCE Notices WITH
       MaxAttempts <- 2, MaxFaults <- NoticeFaults, Events <- ShopEvents,
       sent <- noticeSent, faults <- noticeFaults, event <- noticeEvent

stockGroup == <<stocked, available, reserved, op, movements, stockOutbox, opening>>
outcomeGroup == <<intent, sync, outcomeSent, order, record, receipt, outcomeEvent, report, rejection>>
noticesGroup == <<notice, log, noticeSent, jobs, worker, retries, noticeFaults>>
shopGroup == <<noticeEvent, claim, members, optIn, read, consents, shopWorker, clock, items, page,
               shopRetries, stalls, changes>>
mcVars == <<focus, vars, stockGroup, outcomeGroup, noticesGroup, shopGroup, servicesVars, callVars>>

Only(component) ==
    /\ focus = component /\ UNCHANGED focus
    /\ IF component = "bus" THEN TRUE ELSE UNCHANGED vars
    /\ IF component = "stock" THEN TRUE ELSE UNCHANGED stockGroup
    /\ IF component = "outcome" THEN TRUE ELSE UNCHANGED outcomeGroup
    /\ IF component = "notices" THEN TRUE ELSE UNCHANGED noticesGroup
    /\ IF component = "shop" THEN TRUE ELSE UNCHANGED shopGroup
    /\ IF component = "services" THEN TRUE ELSE UNCHANGED servicesVars
    /\ IF component = "calls" THEN TRUE ELSE UNCHANGED callVars

\* Where a component has several initial states, it rests in one of them.
MCInit ==
    /\ focus \in Components
    /\ Init /\ I!Init /\ P!Init /\ N!NoticesInit /\ N!ShopInit /\ ServicesInit /\ CallsInit
    /\ focus # "stock" => stocked = {} /\ \A o \in StockOrders : op[o].status = "none"
    /\ focus # "services" => fact = "review" /\ publishing = "http"
    /\ focus # "calls" => kind = "reserve" /\ willing

MCNext ==
    \/ Only("bus") /\ Next
    \/ Only("stock") /\ I!Next
    \/ Only("outcome") /\ P!Next
    \/ Only("notices") /\ N!NoticesNext
    \/ Only("shop") /\ N!ShopNext
    \/ Only("services") /\ ServicesNext
    \/ Only("calls") /\ CallsNext


\* The services that take part in the fact's way, numbered.
Peer(a) == SetToSeq(Involved[fact])[a]
IsPeer(a) == a <= Cardinality(Involved[fact])

\* The workers of a component are numbered; the a-th of the component that moves
\* goes on.  The formulas are the fairness of each component, taken together.
MCFairness ==
    /\ \A a \in 1..3 :
         /\ WF_mcVars(\/ Only("bus") /\ a \in Replicas /\ ReplicaStep(a)
                      \/ Only("stock") /\ UNCHANGED opening /\ a \in StockOrders /\ I!ExpireOne(a)
                      \/ Only("outcome") /\ a = 1 /\ (P!OrderConsumes("p1", "captured") \/ P!OrderSetsAside("p1", "captured"))
                      \/ Only("outcome") /\ a = 2 /\ (P!OrderConsumes("p1", "failed") \/ P!OrderSetsAside("p1", "failed"))
                      \/ Only("outcome") /\ a = 3 /\ (P!PaymentConsumes("p1") \/ P!PaymentSetsAside("p1"))
                      \/ Only("notices") /\ a \in Workers /\ \E result \in N!Outcomes : N!Attempt(a, result)
                      \/ Only("notices") /\ a = 3 /\ N!Recover
                      \/ Only("services") /\ IsPeer(a) /\ GoOn(Peer(a)))
         /\ WF_mcVars(\/ Only("bus") /\ a = 1 /\ \E e \in Events : Publish(e)
                      \/ Only("bus") /\ a = 2 /\ \E e \in Events : WindowPasses(e)
                      \/ Only("stock") /\ UNCHANGED opening /\ a \in StockOrders /\ I!Dispatch(a)
                      \/ Only("outcome") /\ a = 1 /\ P!DeliverHTTP("p1")
                      \/ Only("outcome") /\ a = 2 /\ P!PublishOutcome("p1")
                      \/ Only("outcome") /\ a = 3 /\ P!RunReport("p1")
                      \/ Only("notices") /\ a \in Workers /\ N!Finish(a)
                      \/ Only("notices") /\ a = 3 /\ N!TimeComes
                      \/ Only("services") /\ IsPeer(a) /\ Consume(Peer(a)))
    /\ WF_mcVars(\/ Only("notices") /\ N!LeaseEnds /\ \A w \in Workers : worker[w].attempt # notice.attempts
                 \/ Only("services") /\ Send)
    /\ WF_mcVars(\/ Only("notices") /\ \E w \in Workers, n \in jobs : N!Deliver(w, n)
                 \/ Only("services") /\ \E i \in Depended[fact] : ComeBack(i))
    /\ \A m \in Msgs : SF_mcVars(Only("bus") /\ \E r \in Replicas : Fetch(r, m))

MCSpec == MCInit /\ [][MCNext]_mcVars /\ MCFairness

-----------------------------------------------------------------------------
(* Properties.                                                             *)

\* What a service marked as sent is kept until everybody applied it; a caller
\* ends an operation only on an answer of the owner; an order is paid by one
\* capture when the outcomes come by bus; a notice's log says what became of
\* each attempt; and a shop's event is told once, to those who may and want to
\* know (Services, PaymentOutcome, Notices).
WordsAreKept ==
    /\ SentIsKept /\ AnswersAreTheOwners /\ P!PaidByOneCapture
    /\ N!LogIsTrue /\ N!ToldIsRecorded /\ N!OnlyOptedIn

\* What the code says of an admin's retry of a notice: it gives a few more
\* attempts (Notices).
RetryGivesAttempts == N!RetryGivesAttempts

\* What a component has begun, and what it owes: an event is applied, parked or
\* outlives the stream (EventBus); an overdue hold ends, and its expiry is
\* delivered or parked (Inventory); a failed payment ends its order, and a
\* refused capture comes to review (PaymentOutcome); a recorded notice is sent,
\* fails, or is parked, or has used up the attempts it can ever have (Notices); a recorded fact reaches every service that is to know it
\* (Services).
Begun(n) ==
    \/ focus = "bus" /\ n = 1 /\ \E e \in Events : outbox[e] = "pending"
    \/ focus = "stock" /\ n = 1 /\ op[1].status = "held" /\ op[1].due /\ ~op[1].legacy
    \/ focus = "stock" /\ n = 2 /\ op[1].status = "expired"
    \/ focus = "outcome" /\ n = 1 /\ intent["p1"] = "failed"
    \/ focus = "outcome" /\ n = 2 /\ report["p1"].status = "pending" /\ rejection["p1"] = "new"
    \/ focus = "notices" /\ n = 1 /\ notice.status \in {"pending", "sending"}
    \/ focus = "services" /\ n = 1 /\ recorded

Ended(n) ==
    \/ focus = "bus" /\ \A e \in Events : Settled(e)
    \/ focus = "stock" /\ n = 1 /\ (op[1].status # "held" \/ op[1].attempts = 2)
    \/ focus = "stock" /\ n = 2 /\ (stockOutbox[1].row = "delivered" \/ stockOutbox[1].attempts = 2)
    \/ focus = "outcome" /\ n = 1 /\ P!FailureSettled("p1")
    \/ focus = "outcome" /\ n = 2 /\ P!ReportSettled("p1")
    \/ focus = "notices" /\ N!NoticeEnded
    \/ focus = "services" /\ Arrived

\* What was begun ends, however often messages, jobs and processes are lost.
WorkEnds == \A n \in {1, 2} : Begun(n) ~> Ended(n)
=============================================================================
