------------------------ MODULE PaymentOutcomeProofs ------------------------
(***************************************************************************)
(* For every set of orders and intents and for both ways of delivery, an   *)
(* order is paid by one capture whose money arrived and whose stock is     *)
(* sold, and no verdict is taken back.                                     *)
(*                                                                         *)
(* PaidByOneCapture is not inductive: that an applied capture really       *)
(* arrived depends on what is still under way.  CapturesAreReal says that  *)
(* "captured" is only ever queued, called or published for money that      *)
(* arrived.                                                                *)
(***************************************************************************)
EXTENDS PaymentOutcome, TLAPS

CapturesAreReal ==
    \A p \in Payments :
        (\/ sync[p].outcome = "captured"
         \/ <<p, "captured">> \in sent
         \/ event[<<p, "captured">>] # "new") => intent[p] = "captured"

QueuedHasOutcome == \A p \in Payments : sync[p].row # "none" => sync[p].outcome \in Outcomes

OutcomeInv == TypeOK /\ QueuedHasOutcome /\ CapturesAreReal /\ PaidByOneCapture

----------------------------------------------------------------------------
(* What Order's verdict keeps: an accepted outcome leaves every order paid *)
(* by one real capture, with its stock sold.                               *)
LEMMA AcceptsKeeps ==
    ASSUME TypeOK, PaidByOneCapture,
           NEW p \in Payments, NEW outcome \in Outcomes, Accepts(p, outcome),
           outcome = "captured" => intent[p] = "captured", UNCHANGED intent
    PROVE  /\ order' \in [Orders -> {"pending_payment", "paid", "cancelled"}]
           /\ record' \in [Payments -> {"none", "applied", "rejected"}]
           /\ Inv!ReceiptTypeOK'
           /\ PaidByOneCapture'
<1> DEFINE o == OrderOf[p]
<1>1. o \in Orders
  BY OrderOfAssumption
<1>2. CASE UNCHANGED orderVars
  BY <1>2 DEF TypeOK, PaidByOneCapture, PaidBy, orderVars, Inv!ReceiptTypeOK
<1>3. CASE /\ outcome = "captured" /\ record[p] = "none" /\ JudgeCapture(p) /\ CommitStock(o)
           /\ record' = [record EXCEPT ![p] = "applied"]
           /\ order' = [order EXCEPT ![o] = "paid"]
  <2>1. /\ receipt' \in [Orders -> Inv!Statuses]
        /\ receipt'[o] = "committed"
        /\ \A x \in Orders : x # o => receipt'[x] = receipt[x]
    BY <1>1, <1>3 DEF CommitStock, Inv!Commit, TypeOK, Inv!ReceiptTypeOK, Inv!Statuses
  <2>2. \A x \in Orders : PaidBy(x)' = IF x = o THEN {p} ELSE PaidBy(x)
    BY <1>1, <1>3 DEF PaidBy, JudgeCapture, Siblings, TypeOK
  <2>3. PaidByOneCapture'
    <3> SUFFICES ASSUME NEW x \in Orders
                 PROVE  /\ order'[x] = "paid" <=> PaidBy(x)' # {}
                        /\ \A a, b \in PaidBy(x)' : a = b
                        /\ \A a \in PaidBy(x)' : intent'[a] = "captured" /\ receipt'[x] = "committed"
      BY DEF PaidByOneCapture
    <3>1. CASE x = o
      <4>1. PaidBy(x)' = {p}
        BY <2>2, <3>1
      <4>2. order'[x] = "paid"
        BY <1>1, <1>3, <3>1 DEF TypeOK
      <4> QED BY <1>3, <2>1, <3>1, <4>1, <4>2
    <3>2. CASE x # o
      BY <1>1, <1>3, <2>1, <2>2, <3>2 DEF TypeOK, PaidByOneCapture
    <3> QED BY <3>1, <3>2
  <2> QED BY <1>1, <1>3, <2>1, <2>3 DEF TypeOK, Inv!ReceiptTypeOK
<1>4. CASE outcome = "failed" /\ AppliesFailure(p)
  <2>1. \A x \in Orders : PaidBy(x)' = PaidBy(x)
    BY <1>4 DEF AppliesFailure, PaidBy
  <2>2. \A x \in Orders : order'[x] = "paid" <=> order[x] = "paid"
    BY <1>1, <1>4 DEF AppliesFailure, TypeOK
  <2> QED BY <1>1, <1>4, <2>1, <2>2 DEF AppliesFailure, TypeOK, PaidByOneCapture, Inv!ReceiptTypeOK
<1> QED BY <1>2, <1>3, <1>4 DEF Accepts, AppliesCapture

(* A refusal over HTTP records the capture and changes nothing else.       *)
LEMMA RefusalKeeps ==
    ASSUME TypeOK, PaidByOneCapture,
           NEW p \in Payments, NEW outcome \in Outcomes,
           Refuses(p, outcome), RecordRefusal(p, outcome), UNCHANGED intent
    PROVE  /\ order' \in [Orders -> {"pending_payment", "paid", "cancelled"}]
           /\ record' \in [Payments -> {"none", "applied", "rejected"}]
           /\ Inv!ReceiptTypeOK'
           /\ PaidByOneCapture'
<1>1. record' \in [Payments -> {"none", "applied", "rejected"}]
  BY DEF RecordRefusal, TypeOK
<1>2. \A q \in Payments : record'[q] = "applied" <=> record[q] = "applied"
  BY DEF RecordRefusal, Refuses, RefusesCapture, TypeOK
<1>3. \A o \in Orders : PaidBy(o)' = PaidBy(o)
  BY <1>2 DEF PaidBy
<1> QED BY <1>1, <1>3 DEF RecordRefusal, TypeOK, PaidByOneCapture, Inv!ReceiptTypeOK

(* A step that leaves Order's records and receipts alone, and takes no     *)
(* capture back, keeps the orders paid as they are.                        *)
LEMMA OthersKeepPaid ==
    ASSUME PaidByOneCapture, UNCHANGED orderVars,
           \A p \in Payments : intent[p] = "captured" => intent'[p] = "captured"
    PROVE  PaidByOneCapture'
BY DEF PaidByOneCapture, PaidBy, orderVars

SyncRows == [row : {"none", "pending", "review", "delivered"}, outcome : Outcomes \cup {"none"}]

(* Moving a queued row on leaves every queued outcome what it is.          *)
LEMMA RowKeeps ==
    ASSUME TypeOK, QueuedHasOutcome, NEW p \in Payments, sync[p].row # "none",
           NEW row \in {"pending", "review", "delivered"}, sync' = [sync EXCEPT ![p].row = row]
    PROVE  /\ sync' \in [Payments -> SyncRows]
           /\ \A q \in Payments : sync'[q].outcome = sync[q].outcome
           /\ QueuedHasOutcome'
<1>1. sync \in [Payments -> SyncRows]
  BY DEF TypeOK, SyncRows
<1>2. sync' = [q \in Payments |-> IF q = p THEN [sync[p] EXCEPT !.row = row] ELSE sync[q]]
  BY <1>1
<1>3. /\ sync' \in [Payments -> SyncRows]
      /\ sync'[p].row = row /\ sync'[p].outcome = sync[p].outcome
      /\ \A q \in Payments : q # p => sync'[q] = sync[q]
  BY <1>1, <1>2 DEF SyncRows
<1>4. \A q \in Payments : sync'[q].outcome = sync[q].outcome /\ (sync'[q].row # "none" => sync[q].row # "none")
  BY <1>1, <1>3
<1> QED BY <1>3, <1>4 DEF QueuedHasOutcome

(* The invariant holds when no intent has been opened yet.                 *)
LEMMA InitEstablishesInv == Init => OutcomeInv
<1> SUFFICES ASSUME Init PROVE OutcomeInv
  OBVIOUS
<1>1. TypeOK
  BY DEF Init, TypeOK, Inv!ReceiptTypeOK, Inv!Statuses, Bus!Init, Bus!EventTypeOK, Bus!Statuses,
         Back!Init, Back!EventTypeOK, Back!Statuses, Outcomes, OutcomeEvents
<1>2. QueuedHasOutcome /\ CapturesAreReal
  BY DEF Init, QueuedHasOutcome, CapturesAreReal, Bus!Init, OutcomeEvents, Outcomes
<1>3. PaidByOneCapture
  BY DEF Init, PaidByOneCapture, PaidBy
<1> QED BY <1>1, <1>2, <1>3 DEF OutcomeInv

(* Every step keeps the invariant: Payment's receipts and deliveries, late *)
(* calls, Order's verdicts on either way and the order's other ends.       *)
LEMMA NextPreservesInv == OutcomeInv /\ [Next]_vars => OutcomeInv'
<1> SUFFICES ASSUME OutcomeInv, [Next]_vars PROVE OutcomeInv'
  OBVIOUS
<1> USE DEF OutcomeInv
<1> DEFINE Typed == TypeOK' /\ QueuedHasOutcome' /\ CapturesAreReal'
<1>1. ASSUME NEW p \in Payments, CreateIntent(p) \/ Close(p)
      PROVE  OutcomeInv'
  <2>1. /\ intent' \in [Payments -> {"none", "open", "expired", "failed", "captured"}]
        /\ \A q \in Payments : intent[q] = "captured" => intent'[q] = "captured"
        /\ UNCHANGED <<sync, sent, orderVars, busVars>>
    BY <1>1 DEF CreateIntent, Close, TypeOK
  <2>2. Typed
    BY <2>1 DEF TypeOK, QueuedHasOutcome, CapturesAreReal, orderVars, busVars,
                Inv!ReceiptTypeOK, Bus!EventTypeOK, Back!EventTypeOK
  <2> QED BY <2>1, <2>2, OthersKeepPaid
<1>2. ASSUME NEW p \in Payments, ReceiptSucceeded(p) \/ ReceiptFailed(p)
      PROVE  OutcomeInv'
  <2>1. PICK outcome \in Outcomes :
            /\ intent[p] # "captured"
            /\ intent' = [intent EXCEPT ![p] = outcome]
            /\ sync' = [sync EXCEPT ![p] = [row |-> "pending", outcome |-> outcome]]
            /\ UNCHANGED <<sent, orderVars, busVars>>
    BY <1>2 DEF ReceiptSucceeded, ReceiptFailed, QueueOrderSync, Outcomes
  <2>2. \A q \in Payments : intent[q] = "captured" => intent'[q] = "captured"
    BY <2>1 DEF TypeOK
  <2>3. Typed
    BY <2>1 DEF TypeOK, QueuedHasOutcome, CapturesAreReal, orderVars, busVars, Outcomes,
                Inv!ReceiptTypeOK, Bus!EventTypeOK, Back!EventTypeOK
  <2> QED BY <2>1, <2>2, <2>3, OthersKeepPaid
<1>3. ASSUME NEW p \in Payments, DeliverHTTP(p)
      PROVE  OutcomeInv'
  <2>1. /\ sync[p].outcome \in Outcomes
        /\ sync[p].outcome = "captured" => intent[p] = "captured"
        /\ UNCHANGED <<intent, sent, busVars>>
    BY <1>3 DEF DeliverHTTP, QueuedHasOutcome, CapturesAreReal
  <2>2. PICK row \in {"delivered", "review"} : sync' = [sync EXCEPT ![p].row = row]
    BY <1>3 DEF DeliverHTTP, SetRow
  <2>3. /\ order' \in [Orders -> {"pending_payment", "paid", "cancelled"}]
        /\ record' \in [Payments -> {"none", "applied", "rejected"}]
        /\ Inv!ReceiptTypeOK'
        /\ PaidByOneCapture'
    <3>1. CASE Accepts(p, sync[p].outcome)
      BY <2>1, <3>1, AcceptsKeeps
    <3>2. CASE Refuses(p, sync[p].outcome) /\ RecordRefusal(p, sync[p].outcome)
      BY <2>1, <3>2, RefusalKeeps
    <3> QED BY <1>3, <3>1, <3>2 DEF DeliverHTTP
  <2>4. /\ sync' \in [Payments -> SyncRows]
        /\ \A q \in Payments : sync'[q].outcome = sync[q].outcome
        /\ QueuedHasOutcome'
    BY <1>3, <2>2, RowKeeps DEF DeliverHTTP
  <2>5. CapturesAreReal'
    BY <2>1, <2>4 DEF CapturesAreReal, busVars
  <2>6. TypeOK'
    BY <2>1, <2>3, <2>4 DEF TypeOK, SyncRows, busVars, Bus!EventTypeOK, Back!EventTypeOK
  <2> QED BY <2>3, <2>4, <2>5, <2>6
<1>4. ASSUME NEW p \in Payments, DeliverUnanswered(p)
      PROVE  OutcomeInv'
  <2>1. PICK row \in {"pending", "review"} : sync' = [sync EXCEPT ![p].row = row]
    BY <1>4 DEF DeliverUnanswered, SetRow
  <2>2. /\ sync[p].outcome \in Outcomes
        /\ sent' = sent \cup {<<p, sync[p].outcome>>}
        /\ UNCHANGED <<intent, orderVars, busVars>>
    BY <1>4 DEF DeliverUnanswered, QueuedHasOutcome
  <2>3. /\ sync' \in [Payments -> SyncRows]
        /\ \A q \in Payments : sync'[q].outcome = sync[q].outcome
        /\ QueuedHasOutcome'
    BY <1>4, <2>1, RowKeeps DEF DeliverUnanswered
  <2>4. CapturesAreReal'
    BY <2>2, <2>3 DEF CapturesAreReal, busVars
  <2>5. TypeOK'
    BY <2>2, <2>3 DEF TypeOK, SyncRows, orderVars, busVars, OutcomeEvents,
                      Inv!ReceiptTypeOK, Bus!EventTypeOK, Back!EventTypeOK
  <2> QED BY <2>2, <2>3, <2>4, <2>5, OthersKeepPaid
<1>5. ASSUME NEW p \in Payments, CommitRollsBack(p)
      PROVE  OutcomeInv'
  <2>1. /\ OrderOf[p] \in Orders /\ receipt[OrderOf[p]] = "held"
        /\ receipt' = [receipt EXCEPT ![OrderOf[p]] = "committed"]
        /\ UNCHANGED <<paymentVars, order, record, busVars>>
    BY <1>5, OrderOfAssumption DEF CommitRollsBack, Inv!Commit
  <2>2. Typed
    BY <2>1 DEF TypeOK, QueuedHasOutcome, CapturesAreReal, paymentVars, busVars,
                Inv!ReceiptTypeOK, Inv!Statuses, Bus!EventTypeOK, Back!EventTypeOK
  <2>3. PaidByOneCapture'
    BY <2>1 DEF PaidByOneCapture, PaidBy, paymentVars, TypeOK, Inv!ReceiptTypeOK
  <2> QED BY <2>2, <2>3
<1>6. ASSUME NEW p \in Payments, Requeue(p)
      PROVE  OutcomeInv'
  <2>1. Typed
    BY <1>6 DEF Requeue, SetRow, TypeOK, QueuedHasOutcome, CapturesAreReal, orderVars, busVars,
                Inv!ReceiptTypeOK, Bus!EventTypeOK, Back!EventTypeOK
  <2> QED BY <1>6, <2>1, OthersKeepPaid DEF Requeue
<1>7. ASSUME NEW p \in Payments, PublishOutcome(p) \/ PublishUnacked(p)
      PROVE  OutcomeInv'
  <2>1. PICK row \in {"pending", "review", "delivered"} : sync' = [sync EXCEPT ![p].row = row]
    BY <1>7 DEF PublishOutcome, PublishUnacked, SetRow
  <2>2. /\ sync[p].outcome \in Outcomes
        /\ UNCHANGED <<intent, sent, orderVars, report, rejection>>
    BY <1>7 DEF PublishOutcome, PublishUnacked, QueuedHasOutcome
  <2> DEFINE e == <<p, sync[p].outcome>>
  <2>3. e \in OutcomeEvents /\ (Bus!Publish(e) \/ UNCHANGED event)
    BY <1>7, <2>2 DEF PublishOutcome, PublishUnacked, OutcomeEvents
  <2>4. /\ event' \in [OutcomeEvents -> Bus!Statuses]
        /\ \A x \in OutcomeEvents : x # e => event'[x] = event[x]
    <3>1. event \in [OutcomeEvents -> Bus!Statuses]
      BY DEF TypeOK, Bus!EventTypeOK
    <3>2. CASE Bus!Publish(e)
      <4>1. PICK status \in Bus!Statuses : event' = [event EXCEPT ![e] = status]
        BY <2>3, <3>1, <3>2 DEF Bus!Publish, Bus!Statuses
      <4> QED BY <2>3, <3>1, <4>1
    <3> QED BY <2>3, <3>1, <3>2
  <2>5. /\ sync' \in [Payments -> SyncRows]
        /\ \A q \in Payments : sync'[q].outcome = sync[q].outcome
        /\ QueuedHasOutcome'
    BY <1>7, <2>1, RowKeeps DEF PublishOutcome, PublishUnacked
  <2>6. CapturesAreReal'
    <3> SUFFICES ASSUME NEW q \in Payments,
                        \/ sync'[q].outcome = "captured"
                        \/ <<q, "captured">> \in sent'
                        \/ event'[<<q, "captured">>] # "new"
                 PROVE  intent'[q] = "captured"
      BY DEF CapturesAreReal
    <3>1. <<q, "captured">> \in OutcomeEvents
      BY DEF OutcomeEvents, Outcomes
    <3>2. CASE <<q, "captured">> = e
      BY <2>2, <3>2 DEF CapturesAreReal
    <3>3. CASE <<q, "captured">> # e
      BY <2>2, <2>4, <2>5, <3>1, <3>3 DEF CapturesAreReal
    <3> QED BY <3>2, <3>3
  <2>7. TypeOK'
    BY <2>2, <2>4, <2>5 DEF TypeOK, SyncRows, orderVars, Inv!ReceiptTypeOK, Bus!EventTypeOK, Back!EventTypeOK
  <2> QED BY <2>2, <2>5, <2>6, <2>7, OthersKeepPaid
<1>8. ASSUME NEW p \in Payments, RunReport(p) \/ RunReportUnacked(p) \/ ReplayEffect(p)
      PROVE  OutcomeInv'
  <2>1. /\ report' \in [Payments -> [status : {"none", "pending", "done", "parked"}, about : Outcomes \cup {"none"}]]
        /\ UNCHANGED <<paymentVars, orderVars, event>>
    <3>1. PICK status \in {"done", "pending", "parked"} : report' = [report EXCEPT ![p].status = status]
      BY <1>8 DEF RunReport, RunReportUnacked, ReplayEffect
    <3> QED BY <1>8, <3>1 DEF RunReport, RunReportUnacked, ReplayEffect, TypeOK
  <2>2. Back!EventTypeOK'
    BY <1>8 DEF RunReport, RunReportUnacked, ReplayEffect, TypeOK, Back!EventTypeOK, Back!Publish, Back!Statuses
  <2>3. Typed
    BY <2>1, <2>2 DEF TypeOK, QueuedHasOutcome, CapturesAreReal, paymentVars, orderVars, Inv!ReceiptTypeOK, Bus!EventTypeOK
  <2> QED BY <2>1, <2>3, OthersKeepPaid DEF paymentVars
<1>9. ASSUME NEW p \in Payments, PaymentConsumes(p) \/ PaymentSetsAside(p)
      PROVE  OutcomeInv'
  <2>1. /\ UNCHANGED <<intent, sent, orderVars, event, report>>
        /\ \/ UNCHANGED sync
           \/ sync' = [sync EXCEPT ![p].row = IF @ = "none" THEN @ ELSE "review"]
    BY <1>9 DEF PaymentConsumes, PaymentSetsAside, MarkRejected, paymentVars
  <2>2. Back!EventTypeOK'
    BY <1>9 DEF PaymentConsumes, PaymentSetsAside, TypeOK, Back!EventTypeOK, Back!Statuses,
                Back!Process, Back!Replay, Back!Park, Back!Discard
  <2>3. /\ sync' \in [Payments -> SyncRows]
        /\ \A q \in Payments : sync'[q].outcome = sync[q].outcome
        /\ QueuedHasOutcome'
    <3>1. CASE UNCHANGED sync
      BY <3>1 DEF TypeOK, SyncRows, QueuedHasOutcome
    <3>2. CASE sync[p].row # "none" /\ sync' = [sync EXCEPT ![p].row = "review"]
      BY <3>2, RowKeeps
    <3>3. sync[p].row = "none" /\ sync' = [sync EXCEPT ![p].row = "none"] => UNCHANGED sync
      BY DEF TypeOK
    <3> QED BY <2>1, <3>1, <3>2, <3>3
  <2>4. CapturesAreReal'
    BY <2>1, <2>3 DEF CapturesAreReal
  <2>5. TypeOK'
    BY <2>1, <2>2, <2>3 DEF TypeOK, SyncRows, orderVars, Inv!ReceiptTypeOK, Bus!EventTypeOK
  <2> QED BY <2>1, <2>3, <2>4, <2>5, OthersKeepPaid
<1>10. ASSUME NEW p \in Payments, NEW outcome \in Outcomes, LateCall(p, outcome)
       PROVE  OutcomeInv'
  <2>1. /\ outcome = "captured" => intent[p] = "captured"
        /\ UNCHANGED <<paymentVars, busVars>>
    BY <1>10 DEF LateCall, CapturesAreReal
  <2>2. /\ order' \in [Orders -> {"pending_payment", "paid", "cancelled"}]
        /\ record' \in [Payments -> {"none", "applied", "rejected"}]
        /\ Inv!ReceiptTypeOK'
        /\ PaidByOneCapture'
    BY <1>10, <2>1, AcceptsKeeps, RefusalKeeps DEF LateCall, paymentVars
  <2>3. Typed
    BY <2>1, <2>2 DEF TypeOK, QueuedHasOutcome, CapturesAreReal, paymentVars, busVars, Bus!EventTypeOK, Back!EventTypeOK
  <2> QED BY <2>2, <2>3
<1>11. ASSUME NEW p \in Payments, NEW outcome \in Outcomes,
              OrderConsumes(p, outcome) \/ OrderSetsAside(p, outcome)
       PROVE  OutcomeInv'
  <2> DEFINE e == <<p, outcome>>
  <2>1. /\ e \in OutcomeEvents /\ event[e] # "new"
        /\ event' \in [OutcomeEvents -> Bus!Statuses]
        /\ \A x \in OutcomeEvents : event'[x] # "new" => event[x] # "new"
        /\ UNCHANGED <<paymentVars, rejection>>
    BY <1>11 DEF OrderConsumes, OrderSetsAside, OutcomeEvents, TypeOK, Bus!EventTypeOK, Bus!Statuses,
                 Bus!Process, Bus!Replay, Bus!Park, Bus!Discard
  <2>2. CapturesAreReal'
    BY <2>1 DEF CapturesAreReal, paymentVars, OutcomeEvents, Outcomes
  <2>3. outcome = "captured" => intent[p] = "captured"
    BY <2>1 DEF CapturesAreReal
  <2>4. report' \in [Payments -> [status : {"none", "pending", "done", "parked"}, about : Outcomes \cup {"none"}]]
    BY <1>11 DEF OrderConsumes, OrderSetsAside, HandleOutcome, ReportRejection, TypeOK
  <2>5. /\ order' \in [Orders -> {"pending_payment", "paid", "cancelled"}]
        /\ record' \in [Payments -> {"none", "applied", "rejected"}]
        /\ Inv!ReceiptTypeOK'
        /\ PaidByOneCapture'
    <3>1. CASE Accepts(p, outcome)
      BY <2>1, <2>3, <3>1, AcceptsKeeps DEF paymentVars
    <3>2. CASE UNCHANGED orderVars
      BY <2>1, <3>2, OthersKeepPaid DEF TypeOK, orderVars, paymentVars, Inv!ReceiptTypeOK
    <3> QED BY <1>11, <3>1, <3>2 DEF OrderConsumes, OrderSetsAside, HandleOutcome
  <2>6. Typed
    BY <2>1, <2>2, <2>4, <2>5 DEF TypeOK, QueuedHasOutcome, paymentVars, Bus!EventTypeOK, Back!EventTypeOK
  <2> QED BY <2>5, <2>6
<1>12. ASSUME NEW o \in Orders, OrderStep(o)
       PROVE  OutcomeInv'
  <2>1. /\ UNCHANGED <<paymentVars, record, busVars>>
        /\ order' \in [Orders -> {"pending_payment", "paid", "cancelled"}]
        /\ \A x \in Orders : order'[x] = "paid" <=> order[x] = "paid"
    BY <1>12 DEF OrderStep, CancelOrder, HoldExpires, ReservationExpired, ReleaseStock, TypeOK
  <2>2. /\ Inv!ReceiptTypeOK'
        /\ \A x \in Orders : receipt[x] = "committed" => receipt'[x] = "committed"
    BY <1>12 DEF OrderStep, CancelOrder, HoldExpires, ReservationExpired, ReleaseStock, TypeOK,
                 Inv!ReceiptTypeOK, Inv!Statuses, Inv!Expire, Inv!Release
  <2>3. Typed
    BY <2>1, <2>2 DEF TypeOK, QueuedHasOutcome, CapturesAreReal, paymentVars, busVars, Bus!EventTypeOK, Back!EventTypeOK
  <2>4. PaidByOneCapture'
    BY <2>1, <2>2 DEF PaidByOneCapture, PaidBy, paymentVars
  <2> QED BY <2>3, <2>4
<1>13. CASE UNCHANGED vars
  <2>1. Typed
    BY <1>13 DEF vars, TypeOK, QueuedHasOutcome, CapturesAreReal, Inv!ReceiptTypeOK, Bus!EventTypeOK, Back!EventTypeOK
  <2> QED BY <1>13, <2>1, OthersKeepPaid DEF vars, orderVars
<1> QED BY <1>1, <1>2, <1>3, <1>4, <1>5, <1>6, <1>7, <1>8, <1>9, <1>10, <1>11, <1>12, <1>13
        DEF Next, PaymentStep, HTTPStep, BusStep

(* The inductive invariant holds of every state the outcome protocol       *)
(* reaches, over HTTP and over the bus.                                    *)
THEOREM OutcomeInvariant == Spec => []OutcomeInv
<1>1. Init => OutcomeInv
  BY InitEstablishesInv
<1>2. OutcomeInv /\ [Next]_vars => OutcomeInv'
  BY NextPreservesInv
<1> QED BY <1>1, <1>2, PTL DEF Spec

(* The states of intents, outbox rows, events, reports and orders stay     *)
(* within their types.                                                     *)
THEOREM OutcomeTypeCorrect == Spec => []TypeOK
<1>1. OutcomeInv => TypeOK
  BY DEF OutcomeInv
<1> QED BY <1>1, OutcomeInvariant, PTL

(* markPaid: whatever is lost, late, repeated or out of order, an order is *)
(* paid by exactly one capture, whose money arrived and whose stock is     *)
(* sold.                                                                   *)
THEOREM PaidByOneCaptureAlways == Spec => []PaidByOneCapture
<1>1. OutcomeInv => PaidByOneCapture
  BY DEF OutcomeInv
<1> QED BY <1>1, OutcomeInvariant, PTL

VerdictsStay ==
    /\ \A o \in Orders : order[o] # "pending_payment" => order'[o] = order[o]
    /\ \A p \in Payments : record[p] # "none" => record'[p] = record[p]

(* What every step leaves of the verdicts before it.                       *)
LEMMA StepKeepsVerdicts == ASSUME OutcomeInv, Next PROVE VerdictsStay
<1> USE DEF OutcomeInv, VerdictsStay
<1>1. ASSUME NEW p \in Payments, NEW outcome \in Outcomes, Accepts(p, outcome) PROVE VerdictsStay
  BY <1>1, OrderOfAssumption DEF Accepts, AppliesCapture, AppliesFailure, JudgeCapture, orderVars, TypeOK
<1>2. ASSUME NEW p \in Payments, NEW outcome \in Outcomes, Refuses(p, outcome), RecordRefusal(p, outcome) PROVE VerdictsStay
  BY <1>2 DEF Refuses, RefusesCapture, RecordRefusal, TypeOK
<1>3. CASE UNCHANGED <<order, record>>
  BY <1>3
<1>4. ASSUME NEW o \in Orders, CancelOrder(o) \/ ReservationExpired(o) PROVE VerdictsStay
  BY <1>4 DEF CancelOrder, ReservationExpired, TypeOK
<1>5. ASSUME NEW p \in Payments, DeliverHTTP(p) PROVE VerdictsStay
  <2>1. sync[p].outcome \in Outcomes
    BY <1>5 DEF DeliverHTTP, QueuedHasOutcome
  <2> QED BY <1>1, <1>2, <1>5, <2>1 DEF DeliverHTTP
<1>6. ASSUME NEW p \in Payments, NEW outcome \in Outcomes, LateCall(p, outcome) PROVE VerdictsStay
  BY <1>1, <1>2, <1>6 DEF LateCall
<1>7. ASSUME NEW p \in Payments, NEW outcome \in Outcomes,
             OrderConsumes(p, outcome) \/ OrderSetsAside(p, outcome)
      PROVE  VerdictsStay
  BY <1>1, <1>3, <1>7 DEF OrderConsumes, OrderSetsAside, HandleOutcome, orderVars
<1>8. ASSUME NEW p \in Payments, PaymentStep(p) PROVE VerdictsStay
  BY <1>3, <1>8 DEF PaymentStep, orderVars, CreateIntent, Close, ReceiptSucceeded, ReceiptFailed,
        CommitRollsBack, Requeue
<1>9. ASSUME NEW p \in Payments, HTTPStep(p) PROVE VerdictsStay
  BY <1>3, <1>5, <1>6, <1>9 DEF HTTPStep, DeliverUnanswered, orderVars
<1>10. ASSUME NEW p \in Payments, BusStep(p) PROVE VerdictsStay
  BY <1>3, <1>7, <1>10 DEF BusStep, orderVars, PublishOutcome, PublishUnacked, RunReport,
        RunReportUnacked, ReplayEffect, PaymentConsumes, PaymentSetsAside
<1>11. ASSUME NEW o \in Orders, OrderStep(o) PROVE VerdictsStay
  BY <1>3, <1>4, <1>11 DEF OrderStep, HoldExpires, ReleaseStock
<1> QED BY <1>8, <1>9, <1>10, <1>11 DEF Next

(* No report takes back a verdict on an order or on a capture: a failure   *)
(* report never cancels a paid order, a refused capture never pays.        *)
THEOREM VerdictsAreFinal == Spec => VerdictIsFinal
<1>1. ASSUME OutcomeInv, [Next]_vars PROVE [VerdictsStay]_vars
  BY <1>1, StepKeepsVerdicts
<1> QED BY <1>1, OutcomeInvariant, PTL DEF Spec, VerdictIsFinal, VerdictsStay

----------------------------------------------------------------------------
(* Over HTTP the outbox row alone keeps captured money in sight: it is     *)
(* "delivered" only once Order has applied the capture.                    *)
MoneyInSight ==
    \A p \in Payments : intent[p] = "captured" =>
        /\ sync[p].outcome = "captured"
        /\ record[p] = "applied" \/ sync[p].row \in {"pending", "review"}

(* A row that changes its state only, to one that keeps it in sight or     *)
(* after Order applied the capture.                                        *)
LEMMA RowKeepsInSight ==
    ASSUME OutcomeInv, MoneyInSight, VerdictsStay, UNCHANGED intent,
           NEW p \in Payments, NEW row, sync' = [sync EXCEPT ![p].row = row],
           \/ row \in {"pending", "review"}
           \/ sync[p].outcome = "captured" => record'[p] = "applied"
    PROVE  MoneyInSight'
<1> SUFFICES ASSUME NEW q \in Payments, intent'[q] = "captured"
             PROVE  /\ sync'[q].outcome = "captured"
                    /\ record'[q] = "applied" \/ sync'[q].row \in {"pending", "review"}
  BY DEF MoneyInSight
<1>1. /\ sync[q].outcome = "captured"
      /\ record[q] = "applied" \/ sync[q].row \in {"pending", "review"}
  BY DEF MoneyInSight
<1>2. record[q] = "applied" => record'[q] = "applied"
  BY DEF VerdictsStay
<1>3. CASE q = p
  BY <1>1, <1>2, <1>3 DEF OutcomeInv, TypeOK
<1>4. CASE q # p
  BY <1>1, <1>2, <1>4 DEF OutcomeInv, TypeOK
<1> QED BY <1>3, <1>4

LEMMA StepKeepsInSight ==
    ASSUME ~UseBus, OutcomeInv, Next, MoneyInSight
    PROVE  MoneyInSight'
<1>1. VerdictsStay
  BY StepKeepsVerdicts
<1>2. CASE UNCHANGED <<intent, sync>>
  BY <1>1, <1>2 DEF MoneyInSight, VerdictsStay
<1>3. ASSUME NEW p \in Payments, CreateIntent(p) \/ Close(p)
      PROVE  MoneyInSight'
  BY <1>1, <1>3 DEF CreateIntent, Close, MoneyInSight, VerdictsStay, OutcomeInv, TypeOK
<1>4. ASSUME NEW p \in Payments, ReceiptSucceeded(p) \/ ReceiptFailed(p)
      PROVE  MoneyInSight'
  BY <1>1, <1>4 DEF ReceiptSucceeded, ReceiptFailed, QueueOrderSync, MoneyInSight, VerdictsStay, OutcomeInv, TypeOK
<1>5. ASSUME NEW p \in Payments, DeliverHTTP(p)
      PROVE  MoneyInSight'
  <2>1. CASE Accepts(p, sync[p].outcome) /\ SetRow(p, "delivered")
    <3>1. sync[p].outcome = "captured" => record'[p] = "applied"
      BY <2>1 DEF Accepts, AppliesCapture, orderVars, OutcomeInv, TypeOK
    <3> QED BY <1>1, <1>5, <2>1, <3>1, RowKeepsInSight DEF DeliverHTTP, SetRow
  <2>2. CASE SetRow(p, "review")
    BY <1>1, <1>5, <2>2, RowKeepsInSight DEF DeliverHTTP, SetRow
  <2> QED BY <1>5, <2>1, <2>2 DEF DeliverHTTP
<1>6. ASSUME NEW p \in Payments, DeliverUnanswered(p) \/ Requeue(p)
      PROVE  MoneyInSight'
  <2>1. PICK row \in {"pending", "review"} : sync' = [sync EXCEPT ![p].row = row]
    BY <1>6 DEF DeliverUnanswered, Requeue, SetRow
  <2> QED BY <1>1, <1>6, <2>1, RowKeepsInSight DEF DeliverUnanswered, Requeue
<1>7. ASSUME NEW p \in Payments, PaymentConsumes(p)
      PROVE  MoneyInSight'
  <2>1. sync' = [sync EXCEPT ![p].row = IF @ = "none" THEN @ ELSE "review"] /\ UNCHANGED intent
    BY <1>7 DEF PaymentConsumes, MarkRejected
  <2>2. CASE sync[p].row = "none"
    BY <1>1, <2>1, <2>2 DEF MoneyInSight, VerdictsStay, OutcomeInv, TypeOK
  <2>3. CASE sync[p].row # "none"
    <3>1. sync' = [sync EXCEPT ![p].row = "review"]
      BY <2>1, <2>3
    <3> QED BY <1>1, <2>1, <3>1, RowKeepsInSight
  <2> QED BY <2>2, <2>3
<1>8. ASSUME NEW p \in Payments, CommitRollsBack(p) \/ \E outcome \in Outcomes : LateCall(p, outcome)
      PROVE  UNCHANGED <<intent, sync>>
  BY <1>8 DEF CommitRollsBack, LateCall, paymentVars
<1>9. ASSUME NEW p \in Payments, BusStep(p), ~PaymentConsumes(p)
      PROVE  UNCHANGED <<intent, sync>>
  BY <1>9 DEF BusStep, PublishOutcome, PublishUnacked, OrderConsumes, OrderSetsAside, RunReport,
              RunReportUnacked, ReplayEffect, PaymentSetsAside, paymentVars
<1>10. ASSUME NEW o \in Orders, OrderStep(o)
       PROVE  UNCHANGED <<intent, sync>>
  BY <1>10 DEF OrderStep, CancelOrder, HoldExpires, ReservationExpired, ReleaseStock, paymentVars
<1> QED BY <1>2, <1>3, <1>4, <1>5, <1>6, <1>7, <1>8, <1>9, <1>10 DEF Next, PaymentStep, HTTPStep

(* OrderSync.dispatch: over HTTP, captured money that did not pay its      *)
(* order waits for delivery or for review, however many calls are lost,    *)
(* late or repeated.  (Over the bus an operator's retry can lose it.)      *)
THEOREM CapturedMoneyAlwaysAccounted == ~UseBus => (Spec => []CapturedMoneyAccounted)
<1> SUFFICES ASSUME ~UseBus PROVE Spec => []CapturedMoneyAccounted
  OBVIOUS
<1>1. Init => MoneyInSight
  BY DEF Init, MoneyInSight
<1>2. OutcomeInv /\ MoneyInSight /\ [Next]_vars => MoneyInSight'
  <2>1. CASE UNCHANGED vars
    BY <2>1 DEF vars, MoneyInSight
  <2> QED BY <2>1, StepKeepsInSight
<1>3. MoneyInSight => CapturedMoneyAccounted
  BY DEF MoneyInSight, CapturedMoneyAccounted
<1> QED BY <1>1, <1>2, <1>3, OutcomeInvariant, PTL DEF Spec
=============================================================================
