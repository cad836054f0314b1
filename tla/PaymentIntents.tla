--------------------------- MODULE PaymentIntents ---------------------------
(***************************************************************************)
(* Collecting the money of one order: payment intents, the provider's      *)
(* links behind them, the receipts of provider events and the worker that  *)
(* reconciles Payment with the provider.                                   *)
(*                                                                         *)
(* An intent is persisted before the provider is called; the call may fail *)
(* with the link made, made later or never made.  Requests of the buyer    *)
(* and the reconciler run side by side: each is a process whose steps are  *)
(* its database statements and provider calls, and a process can die       *)
(* between two of them.  A link is paid by the buyer it was shown to.      *)
(* Amounts are left out but for one thing: money that arrives in a wrong   *)
(* amount has an event of its own ("mismatch").                            *)
(***************************************************************************)
EXTENDS Naturals, FiniteSets

CONSTANTS
    Intents,      \* payment intents of the order, and their provider links
    OldIntents,   \* at most one: made by the previous release
    LinkRequests,     \* CreateIntent requests of the buyer
    Workers,      \* reconciler rounds, one intent at a time
    MaxMishaps,   \* bound: failed and mismatched payments
    NoIntent

ASSUME OldIntentsAssumption == OldIntents \subseteq Intents /\ \A i, j \in OldIntents : i = j
ASSUME MaxMishapsAssumption == MaxMishaps \in Nat
ASSUME NoIntentAssumption == NoIntent \notin Intents

VARIABLES
    legacy,       \* the intent a previous release made without a reference
    deadline,     \* the reservation, and with it every link, has expired
    intent,       \* payment_intents.status
    age,          \* time since updated_at, against creatingGrace and GiveUp
    link,         \* the provider's link
    inflight,     \* creations whose answer was not waited for
    shown,        \* links the buyer has been sent to
    receipt,      \* payment_receipts, by provider event
    proc          \* where each request and worker is

intentsVars == <<legacy, deadline, intent, age, link, inflight, shown, receipt, proc>>
world == <<legacy, deadline>>
provider == <<link, inflight>>

Processes == LinkRequests \cup Workers
Events == Intents \X {"succeeded", "failed", "mismatch", "query"}
Open(status) == status \in {"creating", "pending"}

TypeOK ==
    /\ legacy \subseteq Intents /\ deadline \in BOOLEAN
    /\ intent \in [Intents -> {"none", "creating", "pending", "captured", "failed", "expired"}]
    /\ age \in [Intents -> {"fresh", "stale", "old"}]
    /\ link \in [Intents -> {"none", "open", "closed", "paid"}]
    /\ inflight \subseteq Intents /\ shown \subseteq Intents
    /\ receipt \in [Events -> {"none", "received", "processed", "rejected"}]
    /\ proc \in [Processes -> [pc : {"idle", "find", "create", "link", "mark", "reject", "query", "cancel",
                                     "close", "record"},
                               intent : Intents \cup {NoIntent}, status : {"none", "creating", "pending"},
                               old : BOOLEAN]]

Idle == [pc |-> "idle", intent |-> NoIntent, status |-> "none", old |-> FALSE]

IntentsInit ==
    /\ deadline = FALSE
    /\ legacy \in {{}, OldIntents}
    /\ intent = [i \in Intents |-> IF i \in legacy THEN "pending" ELSE "none"]
    /\ link = [i \in Intents |-> IF i \in legacy THEN "open" ELSE "none"]
    /\ shown = legacy
    /\ age = [i \in Intents |-> "fresh"]
    /\ inflight = {}
    /\ receipt = [e \in Events |-> "none"]
    /\ proc = [p \in Processes |-> Idle]

Goto(p, pc) == proc' = [proc EXCEPT ![p] = [Idle EXCEPT !.pc = pc, !.intent = proc[p].intent]]
Return(p) == proc' = [proc EXCEPT ![p] = Idle]
At(p, pc) == proc[p].pc = pc

----------------------------------------------------------------------------
(* payment_intents.                                                        *)

FindOpenByOrderID == {i \in Intents : Open(intent[i])}

(* The unique index on the order's open intents refuses a second one.      *)
CreateOperation(i) ==
    /\ intent[i] = "none"
    /\ FindOpenByOrderID = {}
    /\ intent' = [intent EXCEPT ![i] = "creating"]
    /\ age' = [age EXCEPT ![i] = "fresh"]

MarkLinked(i) ==
    IF intent[i] = "creating"
    THEN intent' = [intent EXCEPT ![i] = "pending"] /\ age' = [age EXCEPT ![i] = "fresh"]
    ELSE UNCHANGED <<intent, age>>

(* Mutant: a link that was reported paid is closed all the same.           *)
CloseAny(i) == intent' = [intent EXCEPT ![i] = "expired"] /\ age' = [age EXCEPT ![i] = "fresh"]

Close(i) ==
    IF Open(intent[i])
    THEN intent' = [intent EXCEPT ![i] = "expired"] /\ age' = [age EXCEPT ![i] = "fresh"]
    ELSE UNCHANGED <<intent, age>>

PayableLink(i) == intent[i] = "pending" /\ ~deadline

(* Intents whose link the worker asks about.                               *)
ListForReconciliation == {i \in Intents : \/ intent[i] = "creating" /\ age[i] # "fresh"
                                          \/ intent[i] = "pending" /\ deadline}

----------------------------------------------------------------------------
(* CreateIntent: read the order, then the open intent, then act on both.   *)

(* Order answers that it awaits payment, which it may for as long as its   *)
(* reservation is not over.                                                *)
RequestStarts(p) ==
    /\ p \in LinkRequests /\ At(p, "idle")
    /\ ~deadline
    /\ Goto(p, "find")
    /\ UNCHANGED <<world, intent, age, provider, shown, receipt>>

Snapshot(p, i) ==
    proc' = [proc EXCEPT ![p] = [pc |-> "query", intent |-> i, status |-> intent[i], old |-> age[i] = "old"]]

RequestFinds(p) ==
    /\ At(p, "find")
    /\ \/ FindOpenByOrderID = {} /\ Goto(p, "create") /\ UNCHANGED shown
       \/ \E i \in FindOpenByOrderID :
            \/ PayableLink(i) /\ shown' = shown \cup {i} /\ Return(p)
            \/ intent[i] = "creating" /\ age[i] = "fresh" /\ Return(p) /\ UNCHANGED shown
            \/ /\ ~PayableLink(i) /\ ~(intent[i] = "creating" /\ age[i] = "fresh")
               /\ Snapshot(p, i) /\ UNCHANGED shown
    /\ UNCHANGED <<world, intent, age, provider, receipt>>

RequestCreates(p) ==
    /\ At(p, "create")
    /\ \/ \E i \in Intents : CreateOperation(i) /\ proc' = [proc EXCEPT ![p].pc = "link", ![p].intent = i]
       \/ FindOpenByOrderID # {} /\ Return(p) /\ UNCHANGED <<intent, age>>
    /\ UNCHANGED <<world, provider, shown, receipt>>

(* The provider's answer to creating a link: the link, a refusal (payOS    *)
(* refuses a past deadline and a reference it already knows), or none in   *)
(* time: then the failed attempt is noted, which also restarts the clock.  *)
ProviderCreates(p) ==
    LET i == proc[p].intent
    IN  /\ At(p, "link")
        /\ \/ /\ ~deadline /\ link[i] \in {"none", "open"}
              /\ link' = [link EXCEPT ![i] = "open"]
              /\ Goto(p, "mark")
              /\ UNCHANGED <<age, inflight>>
           \/ Goto(p, "reject") /\ age' = [age EXCEPT ![i] = "fresh"] /\ UNCHANGED provider
           \/ /\ inflight' = inflight \cup {i} /\ UNCHANGED link
              /\ age' = [age EXCEPT ![i] = "fresh"]
              /\ Return(p)
        /\ UNCHANGED <<world, intent, shown, receipt>>

LinkRecorded(p) ==
    LET i == proc[p].intent
    IN  /\ At(p, "mark")
        /\ MarkLinked(i)
        /\ shown' = IF intent'[i] = "pending" /\ ~deadline THEN shown \cup {i} ELSE shown
        /\ Return(p)
        /\ UNCHANGED <<world, provider, receipt>>

LinkRejected(p) ==
    /\ At(p, "reject")
    /\ Close(proc[p].intent)
    /\ Return(p)
    /\ UNCHANGED <<world, provider, shown, receipt>>

----------------------------------------------------------------------------
(* resolveOpen, for a buyer who asks again and for the reconciler.         *)

Reconcile(p) ==
    /\ p \in Workers /\ At(p, "idle")
    /\ \E i \in ListForReconciliation : Snapshot(p, i)
    /\ UNCHANGED <<world, intent, age, provider, shown, receipt>>

(* A link without a reference cannot be asked about: it is closed once its *)
(* time is over.                                                           *)
ResolveLegacy(p) ==
    LET i == proc[p].intent
    IN  /\ At(p, "query") /\ i \in legacy
        /\ IF deadline THEN Goto(p, "close") ELSE Return(p)
        /\ UNCHANGED <<world, intent, age, provider, shown, receipt>>

QueryAnswers(p) ==
    LET i == proc[p].intent
    IN  /\ At(p, "query") /\ i \notin legacy
        /\ \/ link[i] = "none" /\ Goto(p, IF proc[p].status = "creating" /\ p \in LinkRequests THEN "link" ELSE "close")
           \/ link[i] = "paid" /\ Goto(p, "record")
           \/ link[i] = "closed" /\ Goto(p, "close")
           \/ link[i] = "open" /\ Goto(p, "cancel")
        /\ UNCHANGED <<world, intent, age, provider, shown, receipt>>

(* No answer: an attempt that has been unclear for 15 minutes is given up, *)
(* with a cancellation that may not arrive.                                *)
QueryFails(p) ==
    LET i == proc[p].intent
    IN  /\ At(p, "query") /\ i \notin legacy
        /\ IF proc[p].status = "creating" /\ proc[p].old
           THEN /\ link' = [link EXCEPT ![i] = IF @ = "open" THEN "closed" ELSE @] \/ UNCHANGED link
                /\ Goto(p, "close")
           ELSE Return(p) /\ UNCHANGED link
        /\ UNCHANGED <<world, intent, age, inflight, shown, receipt>>

ProviderCancels(p) ==
    LET i == proc[p].intent
    IN  /\ At(p, "cancel")
        /\ \/ link' = [link EXCEPT ![i] = IF @ = "open" THEN "closed" ELSE @] /\ Goto(p, "close")
           \/ UNCHANGED link /\ Return(p)
        /\ UNCHANGED <<world, intent, age, inflight, shown, receipt>>

(* The buyer's request goes on to a new intent, the worker is done.        *)
ResolveCloses(p) ==
    /\ At(p, "close")
    /\ Close(proc[p].intent)
    /\ IF p \in LinkRequests THEN proc' = [proc EXCEPT ![p] = [Idle EXCEPT !.pc = "create"]] ELSE Return(p)
    /\ UNCHANGED <<world, provider, shown, receipt>>

(* recordFinding: the receipt's id is the bank transaction's, as in the    *)
(* webhook, or an id of its own when the provider names no transaction.    *)
RecordFinding(p) ==
    LET i == proc[p].intent
    IN  /\ At(p, "record")
        /\ \E kind \in {"succeeded", "query"} :
             receipt' = [receipt EXCEPT ![<<i, kind>>] = IF @ = "none" THEN "received" ELSE @]
        /\ Return(p)
        /\ UNCHANGED <<world, intent, age, provider, shown>>

Crash(p) ==
    /\ ~At(p, "idle")
    /\ Return(p)
    /\ UNCHANGED <<world, intent, age, provider, shown, receipt>>

----------------------------------------------------------------------------
(* Receipts: a provider event is stored once, then applied.                *)

(* The provider reports a paid link, until it is answered; it may also     *)
(* report a failed payment or one in a wrong amount.                       *)
Mishaps == {e \in Events : e[2] \in {"failed", "mismatch"} /\ receipt[e] # "none"}

Reported(e) ==
    \/ e[2] = "succeeded" /\ link[e[1]] = "paid"
    \/ e[2] \in {"failed", "mismatch"} /\ e[1] \in shown /\ Cardinality(Mishaps) < MaxMishaps

ProcessWebhook(e) ==
    /\ receipt[e] = "none" /\ Reported(e)
    /\ receipt' = [receipt EXCEPT ![e] = "received"]
    /\ UNCHANGED <<world, intent, age, provider, shown, proc>>

(* What a receipt does: its own final status and the intent's.             *)
DecideReceipt(e) ==
    LET i == e[1]
    IN  CASE e[2] = "mismatch" -> <<"rejected", intent[i]>>
          [] e[2] \in {"succeeded", "query"} -> <<"processed", "captured">>
          [] e[2] = "failed" -> <<"processed", IF Open(intent[i]) THEN "failed" ELSE intent[i]>>

(* applyReceipt, called by the webhook, by recordFinding and by the worker *)
(* for what is left; a done receipt is never applied again.  An attempt    *)
(* that fails leaves the receipt due ("retryable" in the code).            *)
ApplyReceipt(e) ==
    /\ receipt[e] = "received"
    /\ receipt' = [receipt EXCEPT ![e] = DecideReceipt(e)[1]]
    /\ intent' = [intent EXCEPT ![e[1]] = DecideReceipt(e)[2]]
    /\ age' = IF intent'[e[1]] # intent[e[1]] THEN [age EXCEPT ![e[1]] = "fresh"] ELSE age
    /\ UNCHANGED <<world, provider, shown, proc>>

----------------------------------------------------------------------------
(* The provider, the buyer at its page and the clock.                      *)

PayLink(i) ==
    /\ i \in shown /\ link[i] = "open"
    /\ link' = [link EXCEPT ![i] = "paid"]
    /\ UNCHANGED <<world, intent, age, inflight, shown, receipt, proc>>

(* A creation nobody waited for arrives, or never does.                    *)
LateCreation(i) ==
    /\ i \in inflight
    /\ inflight' = inflight \ {i}
    /\ link' = [link EXCEPT ![i] = IF @ = "none" /\ ~deadline THEN "open" ELSE @] \/ UNCHANGED link
    /\ UNCHANGED <<world, intent, age, shown, receipt, proc>>

LinkExpires(i) ==
    /\ deadline /\ link[i] = "open"
    /\ link' = [link EXCEPT ![i] = "closed"]
    /\ UNCHANGED <<world, intent, age, inflight, shown, receipt, proc>>

(* A provider call is cut off after 20 seconds, before the first limit     *)
(* (30 seconds), so nobody is still making the link.                       *)
TimePasses(i) ==
    /\ intent[i] = "creating" /\ age[i] # "old"
    /\ \A p \in Processes : proc[p].intent = i => proc[p].pc \notin {"link", "mark", "reject"}
    /\ age' = [age EXCEPT ![i] = IF @ = "fresh" THEN "stale" ELSE "old"]
    /\ UNCHANGED <<world, intent, provider, shown, receipt, proc>>

DeadlinePasses ==
    /\ ~deadline /\ deadline' = TRUE
    /\ UNCHANGED <<legacy, intent, age, provider, shown, receipt, proc>>

----------------------------------------------------------------------------
ProcessStep(p) ==
    \/ RequestStarts(p) \/ RequestFinds(p) \/ RequestCreates(p) \/ ProviderCreates(p)
    \/ LinkRecorded(p) \/ LinkRejected(p) \/ Reconcile(p) \/ ResolveLegacy(p)
    \/ QueryAnswers(p) \/ QueryFails(p) \/ ProviderCancels(p) \/ ResolveCloses(p)
    \/ RecordFinding(p) \/ Crash(p)

ReceiptStep(e) == ProcessWebhook(e) \/ ApplyReceipt(e)

IntentsNext ==
    \/ \E p \in Processes : ProcessStep(p)
    \/ \E e \in Events : ReceiptStep(e)
    \/ \E i \in Intents : PayLink(i) \/ LateCreation(i) \/ LinkExpires(i) \/ TimePasses(i)
    \/ DeadlinePasses

IntentsSpec == IntentsInit /\ [][IntentsNext]_intentsVars

----------------------------------------------------------------------------
(* Payment calls an intent captured only when its link is paid in full,    *)
(* and never forgets it again: no failure, wrong amount, duplicate, close  *)
(* or retry of a request changes that.                                     *)
CaptureIsReal == \A i \in Intents : intent[i] = "captured" => link[i] = "paid"
CaptureIsFinal == [][\A i \in Intents : intent[i] = "captured" => intent'[i] = "captured"]_intentsVars

-----------------------------------------------------------------------------
\* How a verified event gets applied, however often that fails.
(***************************************************************************)
(* How Payment gets through the provider's events: each verified event is  *)
(* a receipt that is recorded before it is applied, applied by whoever has *)
(* its lock (the webhook, the worker or an administrator's retry), parked  *)
(* while no payment intent is known for it, and tried again by the worker  *)
(* until the parking window ends, after which an administrator retries it  *)
(* by hand.                                                                *)
(*                                                                         *)
(* The events are about one payment intent; what they decide about the     *)
(* provider's link is PaymentIntents.                                      *)
(***************************************************************************)
CONSTANTS Receipts,
          MaxFailures  \* failed transactions, crashes and outages

Verdicts == {"succeeded", "mismatch", "failed"}

VARIABLES event,    \* what each receipt says
          receiptRow,  \* its row: status, and how often its decision was committed
          receiptAge,      \* 0: received just now; 1: over 30 seconds; 2: over the parking window
          known,    \* the receipts whose intent the database can find
          linkStatus,   \* the intent: "pending", "expired", "failed", "captured"
          failing,  \* the receipts whose failed apply is not yet recorded
          retried,  \* the receipts an audited retry asked for while known
          failures

receiptsVars == <<event, receiptRow, receiptAge, known, linkStatus, failing, retried, failures>>

OpenReceipt == {"received", "retryable", "parked"}
Done(r) == receiptRow[r].status \in {"processed", "rejected"}

ReceiptsInit ==
    /\ event \in [Receipts -> Verdicts]
    /\ receiptRow = [r \in Receipts |-> [status |-> "none", applied |-> 0]]
    /\ receiptAge = [r \in Receipts |-> 0]
    /\ known \in SUBSET Receipts
    /\ linkStatus \in {"pending", "expired"}
    /\ failing = {} /\ retried = {} /\ failures = 0

Failure == failures < MaxFailures /\ failures' = failures + 1

-----------------------------------------------------------------------------
(* A delivery is recorded once per event id. *)
Record(r) ==
    /\ receiptRow[r].status = "none"
    /\ receiptRow' = [receiptRow EXCEPT ![r].status = "received"]
    /\ UNCHANGED <<event, receiptAge, known, linkStatus, failing, retried, failures>>

(* The database can find the receipt's intent from now on. *)
BecomeKnown(r) ==
    /\ r \notin known /\ known' = known \cup {r}
    /\ UNCHANGED <<event, receiptRow, receiptAge, linkStatus, failing, retried, failures>>

GrowOld(r) ==
    /\ receiptRow[r].status # "none" /\ receiptAge[r] < 2
    /\ receiptAge' = [receiptAge EXCEPT ![r] = @ + 1]
    /\ UNCHANGED <<event, receiptRow, known, linkStatus, failing, retried, failures>>

(* What the receipt does to its intent, and its final status. *)
Decision(r) ==
    CASE event[r] = "mismatch" -> [intent |-> linkStatus, status |-> "rejected"]
      [] event[r] = "succeeded" -> [intent |-> "captured", status |-> "processed"]
      [] event[r] = "failed" -> [intent |-> IF linkStatus = "pending" THEN "failed" ELSE linkStatus,
                                 status |-> "processed"]

Finish(r) ==
    /\ r \in known
    /\ linkStatus' = Decision(r).intent
    /\ receiptRow' = [receiptRow EXCEPT ![r] = [status |-> Decision(r).status, applied |-> @.applied + 1]]
Park(r) ==
    /\ r \notin known
    /\ receiptRow' = [receiptRow EXCEPT ![r].status = "parked"] /\ UNCHANGED linkStatus

(* One transaction: the lock, the decision and the receipt's final status. *)
(* When it fails, the failure is recorded outside it, later.               *)
applyReceipt(r) ==
    \/ /\ receiptRow[r].status \in OpenReceipt /\ (Finish(r) \/ Park(r))
       /\ UNCHANGED <<event, receiptAge, known, failing, failures>>
    \/ /\ receiptRow[r].status \in OpenReceipt /\ Failure /\ failing' = failing \cup {r}
       /\ UNCHANGED <<event, receiptRow, receiptAge, known, linkStatus>>

MarkAnyRetryable(r) == receiptRow' = [receiptRow EXCEPT ![r].status = "retryable"]
MarkRetryable(r) ==
    receiptRow' = [receiptRow EXCEPT ![r].status = IF Done(r) THEN @ ELSE "retryable"]

RecordFailure(r) ==
    /\ r \in failing /\ failing' = failing \ {r}
    /\ MarkRetryable(r)
    /\ UNCHANGED <<event, receiptAge, known, linkStatus, retried, failures>>

(* The process ends before it recorded its failure. *)
LoseFailure(r) ==
    /\ r \in failing /\ Failure /\ failing' = failing \ {r}
    /\ UNCHANGED <<event, receiptRow, receiptAge, known, linkStatus, retried>>

(* The webhook, or the provider's redelivery of it. *)
ApplyNow(r) == applyReceipt(r) /\ UNCHANGED retried

ListDue(r) ==
    \/ receiptRow[r].status = "received" /\ receiptAge[r] > 0
    \/ receiptRow[r].status = "retryable"
    \/ receiptRow[r].status = "parked" /\ receiptAge[r] < 2

(* One round of the worker.  A receipt whose intent stays unknown is parked *)
(* again, which changes nothing here.                                      *)
ApplyDue(r) == ListDue(r) /\ applyReceipt(r) /\ UNCHANGED retried

-----------------------------------------------------------------------------
(* The administrator's audited retry makes the receipt due, and then applies *)
(* it like a redelivery would.                                             *)
RequeueReceipt(r) == receiptRow' = [receiptRow EXCEPT ![r].status = "retryable"]

RetryReceipt(r) ==
    /\ receiptRow[r].status \in OpenReceipt /\ RequeueReceipt(r)
    /\ retried' = IF r \in known THEN retried \cup {r} ELSE retried
    /\ UNCHANGED <<event, receiptAge, known, linkStatus, failing, failures>>

ReceiptsNext ==
    \E r \in Receipts : \/ Record(r) \/ BecomeKnown(r) \/ GrowOld(r) \/ ApplyNow(r)
                        \/ RecordFailure(r) \/ LoseFailure(r) \/ ApplyDue(r)
                        \/ RetryReceipt(r)

ReceiptsSpec == ReceiptsInit /\ [][ReceiptsNext]_receiptsVars

-----------------------------------------------------------------------------
(* However the webhook, the worker and the administrator meet, a receipt's *)
(* decision is committed at most once, and a capture it decided stays (the *)
(* failure recorded by whoever lost the race does not open it again).      *)
ReceiptAppliedOnce ==
    \A r \in Receipts : /\ receiptRow[r].applied <= 1
                        /\ (receiptRow[r].applied = 1 <=> Done(r))
                        /\ (receiptRow[r].applied = 1 /\ event[r] = "succeeded" => linkStatus = "captured")

=============================================================================
