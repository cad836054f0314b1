---------------------------- MODULE SupportCases ----------------------------
(***************************************************************************)
(* Support cases on a delivered vendor order: the case's life, the refund  *)
(* or return that resolves it, the payout hold it keeps in Payment's       *)
(* ledger while it is open, and requests without an order (intakes).  Each *)
(* action is one transaction under the order lock; the calls to Payment    *)
(* run outside it and may arrive late, twice or without an answer.         *)
(*                                                                         *)
(* An admin's expected_version is a compare-and-set with the row read in   *)
(* the same transaction: a stale admin is refused, which changes nothing.  *)
(***************************************************************************)
EXTENDS OrderLifecycle, Integers, FiniteSets

CONSTANTS CaseIds,         \* cases the buyer or an admin may open, one after another
          IntakeIds,       \* requests without an order id
          MaxOpenIntakes   \* intakes one buyer may leave waiting

VARIABLES cases,       \* [CaseIds -> support_cases row]
          caseHold,    \* [CaseIds -> hold_status, "none" without a hold]
          holdLedger,  \* [CaseIds -> Payment's record of the hold]
          calls,       \* acquire requests on their way to Payment
          answers,     \* Payment's answers not yet recorded by Order
          intakes,     \* [IntakeIds -> status]
          return       \* outcome of the buyer's return (Returns models it)

caseVars == <<cases, caseHold, holdLedger, calls, answers, intakes, return>>
supportVars == <<lifecycleVars, caseVars>>

caseOrder == CHOOSE v \in VendorOrders : TRUE

NoCase == [status |-> "none", money |-> FALSE, kind |-> "none", ref |-> 0]

caseTransitions ==
    [open |-> {"in_progress"},
     in_progress |-> {"waiting_buyer", "waiting_vendor", "resolution_pending", "resolved"},
     waiting_buyer |-> {"in_progress", "waiting_vendor", "resolution_pending", "resolved"},
     waiting_vendor |-> {"in_progress", "waiting_buyer", "resolution_pending", "resolved"},
     resolution_pending |-> {"resolved", "in_progress"}, resolved |-> {"in_progress", "closed"},
     none |-> {}, closed |-> {}]

CanTransitionCase(from, to) == to \in caseTransitions[from]

CheckCaseEligibility(money) == money => PaidOrFurther(voStatus[caseOrder])

\* Cases of one kind (money or not) that are not closed; at most one.
FindNotClosed(money) == {c \in CaseIds : cases[c].status \notin {"none", "closed"} /\ cases[c].money = money}

Working(c) == cases[c].status \in {"in_progress", "waiting_buyer", "waiting_vendor"}

\* The row saved with a new status.
saveCaseStep(c, ticket, to) == cases' = [cases EXCEPT ![c] = [ticket EXCEPT !.status = to]]

Open(h) == h \in {"preparing", "active", "needs_review"}

SetStatus(hs, c, from, to) == IF hs[c] \in from THEN [hs EXCEPT ![c] = to] ELSE hs

\* Closing a case with an open hold sends the hold for release.
releaseCaseHoldOnClose(c) ==
    IF Open(caseHold[c])
    THEN /\ caseHold' = SetStatus(caseHold, c, {"preparing", "active", "needs_review"}, "releasing")
         /\ effects' = Enqueue(effects, {Effect("release_settlement_hold", c)})
    ELSE UNCHANGED <<caseHold, effects>>

moveCase(c, ticket, to) ==
    /\ CanTransitionCase(ticket.status, to)
    /\ saveCaseStep(c, ticket, to)
    /\ IF to = "closed" THEN releaseCaseHoldOnClose(c) ELSE UNCHANGED <<caseHold, effects>>

\* What a transition of a case leaves alone besides.
CaseStep == UNCHANGED <<orderStatus, voStatus, completed, moneyVars, settled, holdLedger, calls, answers, intakes, return>>

-----------------------------------------------------------------------------
(* Opening.                                                                *)

Prepare(hs, c) == [hs EXCEPT ![c] = "preparing"]

\* A case that may affect money gets its hold in the same transaction.
prepareCaseHold(c, money) ==
    IF money /\ caseHold[c] = "none"
    THEN /\ caseHold' = Prepare(caseHold, c)
         /\ effects' = Enqueue(effects, {Effect("acquire_settlement_hold", c)})
    ELSE UNCHANGED <<caseHold, effects>>

OpenCase(c, money) ==
    /\ cases[c].status = "none"
    /\ \A d \in CaseIds : d < c => cases[d].status # "none"
    /\ cases' = [cases EXCEPT ![c] = [NoCase EXCEPT !.status = "open", !.money = money]]
    /\ prepareCaseHold(c, money)

\* One case not closed per vendor order and category.
CreateSupportCase(c, money) ==
    /\ CheckCaseEligibility(money)
    /\ FindNotClosed(money) = {}
    /\ OpenCase(c, money)
    /\ CaseStep

\* EnsureSupportHolds: a case opened before the ledger was on gets a hold,
\* a closed one whose hold was never sent for release is released.
EnsureSupportHolds(c) ==
    /\ \/ cases[c].status \notin {"none", "closed"} /\ cases[c].money /\ caseHold[c] = "none" /\ prepareCaseHold(c, TRUE)
       \/ cases[c].status = "closed" /\ Open(caseHold[c]) /\ releaseCaseHoldOnClose(c)
    /\ UNCHANGED cases
    /\ CaseStep

\* The count and the insert of one request are not serialised with another's.
CountOpen == Cardinality({i \in IntakeIds : intakes[i] = "open"})

CheckIntakes(i) ==
    /\ intakes[i] = "none" /\ CountOpen < MaxOpenIntakes
    /\ intakes' = [intakes EXCEPT ![i] = "counted"]
    /\ UNCHANGED <<lifecycleVars, cases, caseHold, holdLedger, calls, answers, return>>

CreateSupportIntake(i) ==
    /\ intakes[i] = "counted"
    /\ intakes' = [intakes EXCEPT ![i] = "open"]
    /\ UNCHANGED <<lifecycleVars, cases, caseHold, holdLedger, calls, answers, return>>

\* The intake's message joins the case already there, or opens one.
LinkSupportIntake(i, money) ==
    /\ intakes[i] = "open"
    /\ CheckCaseEligibility(money)
    /\ intakes' = [intakes EXCEPT ![i] = "linked"]
    /\ IF FindNotClosed(money) # {}
       THEN UNCHANGED <<cases, caseHold, effects>>
       ELSE \E c \in CaseIds : OpenCase(c, money)
    /\ UNCHANGED <<orderStatus, voStatus, completed, moneyVars, settled, holdLedger, calls, answers, return>>

CloseSupportIntake(i) ==
    /\ intakes[i] = "open"
    /\ intakes' = [intakes EXCEPT ![i] = "closed"]
    /\ UNCHANGED <<lifecycleVars, cases, caseHold, holdLedger, calls, answers, return>>

-----------------------------------------------------------------------------
(* Handling.                                                               *)

AssignSupportCase(c) ==
    /\ cases[c].status = "open"
    /\ moveCase(c, cases[c], "in_progress")
    /\ CaseStep

ChangeSupportCaseStatus(c, to) ==
    /\ to \in {"waiting_buyer", "waiting_vendor", "in_progress"}
    /\ Working(c)
    /\ moveCase(c, cases[c], to)
    /\ CaseStep

\* An answer of the party the case waits for puts it back in progress.
PostSupportMessage(c) ==
    /\ cases[c].status \in {"waiting_buyer", "waiting_vendor"}
    /\ moveCase(c, cases[c], "in_progress")
    /\ CaseStep

requireAnyCaseHold(c) == cases[c].money => caseHold[c] # "none"

\* Payment has confirmed (or flagged) the hold of a case about money.
requireCaseHold(c) == cases[c].money => caseHold[c] \notin {"none", "preparing"}

\* Whether the linked operation is done, waits, or cannot resolve the case.
linkedOutcome(kind, ref) ==
    CASE kind = "no_action" -> "done"
      [] kind = "refund" -> (CASE refunds[ref].status = "succeeded" -> "done"
                               [] refunds[ref].status \in {"requested", "submitted"} -> "pending"
                               [] OTHER -> "refused")
      [] kind = "return" -> (CASE return = "refunded" -> "done" [] return = "rejected" -> "refused" [] OTHER -> "pending")

ResolveSupportCase(c, kind, ref) ==
    LET ticket == [cases[c] EXCEPT !.kind = kind, !.ref = ref]
    IN /\ Working(c)
       /\ kind # "no_action" => requireCaseHold(c)
       /\ \/ linkedOutcome(kind, ref) = "pending" /\ moveCase(c, ticket, "resolution_pending")
          \/ linkedOutcome(kind, ref) = "done" /\ moveCase(c, ticket, "resolved")
       /\ CaseStep

\* A dispute refund and the pending resolution, in one transaction.
CreateCaseRefund(c, amount) ==
    LET ref == Len(refunds) + 1
    IN /\ Working(c) /\ cases[c].money /\ requireCaseHold(c)
       /\ AdminRequestRefund(caseOrder, amount)
       /\ CanTransitionCase(cases[c].status, "resolution_pending")
       /\ saveCaseStep(c, [cases[c] EXCEPT !.kind = "refund", !.ref = ref], "resolution_pending")
       /\ UNCHANGED <<caseHold, holdLedger, calls, answers, intakes, return>>

CloseSupportCase(c) ==
    /\ moveCase(c, cases[c], "closed")
    /\ CaseStep

\* Within the reopen window; afterwards CloseExpiredSupportCases closes it.
ReopenSupportCase(c) ==
    /\ cases[c].status = "resolved"
    /\ moveCase(c, [cases[c] EXCEPT !.kind = "none", !.ref = 0], "in_progress")
    /\ CaseStep

syncConfirmedOnly(kind, ref, succeeded) ==
    [c \in CaseIds |->
        IF cases[c].status = "resolution_pending" /\ cases[c].kind = kind /\ cases[c].ref = ref /\ succeeded
        THEN [cases[c] EXCEPT !.status = "resolved"]
        ELSE cases[c]]

\* The cases waiting for an operation follow its outcome.
syncSupportResolution(kind, ref, succeeded) ==
    [c \in CaseIds |->
        IF cases[c].status = "resolution_pending" /\ cases[c].kind = kind /\ cases[c].ref = ref
        THEN IF succeeded THEN [cases[c] EXCEPT !.status = "resolved"]
             ELSE [cases[c] EXCEPT !.status = "in_progress", !.kind = "none", !.ref = 0]
        ELSE cases[c]]

\* A refund's outcome or refusal, with the cases that wait for it.
CaseRefundAnswered(i) ==
    /\ RefundOutcomeArrives(i) \/ RejectRefund(i)
    /\ cases' = IF refunds'[i].status = refunds[i].status THEN cases
                ELSE syncSupportResolution("refund", i, refunds'[i].status = "succeeded")
    /\ UNCHANGED <<caseHold, holdLedger, calls, answers, intakes, return>>

\* stepReturn's last steps: the return ends, or its refund fails and is retried.
ReturnMoves(to) ==
    /\ to \in [open |-> {"refunded", "rejected", "refund_failed"}, refund_failed |-> {"open"},
               refunded |-> {}, rejected |-> {}][return]
    /\ return' = to
    /\ cases' = IF to = "open" THEN cases ELSE syncSupportResolution("return", 0, to = "refunded")
    /\ UNCHANGED <<lifecycleVars, caseHold, holdLedger, calls, answers, intakes>>

-----------------------------------------------------------------------------
(* The hold, between Order and Payment's ledger.                           *)

\* acquireCaseHold up to its call.
AcquireSent(c) ==
    /\ Effect("acquire_settlement_hold", c) \in effects.pending
    /\ IF caseHold[c] = "preparing"
       THEN calls' = calls \cup {c} /\ UNCHANGED effects
       ELSE effects' = MarkDone(effects, Effect("acquire_settlement_hold", c)) /\ UNCHANGED calls
    /\ UNCHANGED <<orderStatus, voStatus, completed, moneyVars, settled, cases, caseHold, holdLedger, answers, intakes, return>>

AcquireAgain(old) == {"active", "claimed"}

\* Payment records a hold once; a payout may have claimed the order before,
\* and a hold released before its acquire stays released.
Acquire(old) == IF old = "none" THEN {"active", "claimed"} ELSE {old}

HoldAnswer(record) == [active |-> "active", claimed |-> "needs_review", released |-> "released"][record]

\* The request arrives, the sender still listening or not.
AcquireArrives(c) ==
    /\ c \in calls
    /\ \E record \in Acquire(holdLedger[c]) :
          /\ holdLedger' = [holdLedger EXCEPT ![c] = record]
          /\ answers' \in {answers, answers \cup {<<c, HoldAnswer(record)>>}}
    /\ calls' = calls \ {c}
    /\ UNCHANGED <<lifecycleVars, cases, caseHold, intakes, return>>

\* acquireCaseHold's second transaction.
AcquireRecorded(c, to) ==
    /\ <<c, to>> \in answers
    /\ answers' = answers \ {<<c, to>>}
    /\ caseHold' = SetStatus(caseHold, c, {"preparing"}, to)
    /\ effects' \in AfterRun(Effect("acquire_settlement_hold", c))
    /\ UNCHANGED <<orderStatus, voStatus, completed, moneyVars, settled, cases, holdLedger, calls, intakes, return>>

\* The release effect; its answer may be lost, and it is then sent again.
releaseCaseHold(c) ==
    /\ Effect("release_settlement_hold", c) \in effects.pending
    /\ IF caseHold[c] = "releasing"
       THEN /\ holdLedger' = [holdLedger EXCEPT ![c] = "released"]
            /\ \/ UNCHANGED <<caseHold, effects>>
               \/ /\ caseHold' = SetStatus(caseHold, c, {"releasing"}, "released")
                  /\ effects' \in AfterRun(Effect("release_settlement_hold", c))
       ELSE effects' = MarkDone(effects, Effect("release_settlement_hold", c)) /\ UNCHANGED <<caseHold, holdLedger>>
    /\ UNCHANGED <<orderStatus, voStatus, completed, moneyVars, settled, cases, calls, answers, intakes, return>>

-----------------------------------------------------------------------------
SupportStep ==
    \/ \E c \in CaseIds :
          \/ \E money \in BOOLEAN : CreateSupportCase(c, money)
          \/ EnsureSupportHolds(c)
          \/ AssignSupportCase(c) \/ PostSupportMessage(c)
          \/ \E to \in {"waiting_vendor", "waiting_buyer"} : ChangeSupportCaseStatus(c, to)
          \/ ResolveSupportCase(c, "no_action", 0) \/ ResolveSupportCase(c, "return", 0)
          \/ \E i \in RefundIds : ResolveSupportCase(c, "refund", i)
          \/ CreateCaseRefund(c, 1)
          \/ CloseSupportCase(c) \/ ReopenSupportCase(c)
          \/ AcquireSent(c) \/ AcquireArrives(c) \/ releaseCaseHold(c)
          \/ \E to \in {"active", "needs_review", "released"} : AcquireRecorded(c, to)
    \/ \E i \in IntakeIds :
          \/ CheckIntakes(i) \/ CreateSupportIntake(i) \/ CloseSupportIntake(i)
          \/ \E money \in BOOLEAN : LinkSupportIntake(i, money)
    \/ \E to \in {"open", "refunded", "rejected", "refund_failed"} : ReturnMoves(to)
    \/ \E i \in RefundIds : CaseRefundAnswered(i)
    \/ /\ \E i \in RefundIds : SubmitRefund(i) \/ RecordSubmitted(i) \/ PaymentDecides(i)
       /\ UNCHANGED caseVars

\* A case about money from before the hold ledger; one already waiting for its
\* refund was held by Payment asking Order and is left out.
LegacyCases ==
    {[NoCase EXCEPT !.status = st, !.money = TRUE] : st \in {"open", "in_progress", "waiting_buyer", "waiting_vendor"}}
    \cup {[NoCase EXCEPT !.status = st, !.money = TRUE, !.kind = "no_action"] : st \in {"resolved", "closed"}}

\* A delivered order; the first case may date from before the hold ledger.
SupportInit ==
    /\ orderStatus = "completed" /\ voStatus = [v \in VendorOrders |-> "completed"]
    /\ completed = VendorOrders /\ settled = VendorOrders
    /\ refunded = [v \in VendorOrders |-> 0] /\ refunds = <<>> /\ payment = <<>>
    /\ effects = [pending |-> {}, done |-> {}, parked |-> {}]
    /\ \E first \in {NoCase} \cup LegacyCases : cases = [c \in CaseIds |-> IF c = 1 THEN first ELSE NoCase]
    /\ caseHold = [c \in CaseIds |-> "none"] /\ holdLedger = [c \in CaseIds |-> "none"]
    /\ calls = {} /\ answers = {}
    /\ intakes = [i \in IntakeIds |-> "none"] /\ return = "open"

SupportSpec == SupportInit /\ [][SupportStep]_supportVars

-----------------------------------------------------------------------------
(* Money is protected while it is in dispute: as long as a case about      *)
(* money waits for a refund or return, Payment's ledger holds the payout   *)
(* (or told Order that a payout had claimed it), whatever calls were lost, *)
(* repeated or late.                                                       *)
DisputedMoneyIsHeld ==
    \A c \in CaseIds : cases[c].status = "resolution_pending" /\ cases[c].money => holdLedger[c] \in {"active", "claimed"}

(* A hold Order counts as released never comes back in Payment's ledger:   *)
(* an acquire that arrives after the release finds its tombstone.          *)
ReleasedHoldStaysReleased ==
    \A c \in CaseIds : caseHold[c] = "released" => holdLedger[c] = "released" /\ cases[c].status = "closed"

(* A case says "resolved by refund" only for a refund that was paid, and   *)
(* never waits for one that has already ended: no outcome is missed        *)
(* between linking and its arrival.                                        *)
CaseFollowsRefund ==
    \A c \in CaseIds : cases[c].kind = "refund" =>
        /\ cases[c].status = "resolved" => refunds[cases[c].ref].status = "succeeded"
        /\ cases[c].status = "resolution_pending" => refunds[cases[c].ref].status \in {"requested", "submitted"}

-----------------------------------------------------------------------------
(***************************************************************************)
(* Payout holds of returns and refunds.  The hold row is written in the    *)
(* transaction that opens its source; two effects carry it to Payment's    *)
(* ledger; the sweep backfills sources opened before the ledger was on and *)
(* sends the holds of ended sources for release.  An effect Payment        *)
(* refuses, or that failed too often, is parked until an admin replays it. *)
(***************************************************************************)
CONSTANT Sources   \* returns and refunds of vendor orders

VARIABLES source,      \* [Sources -> "none" | "open" | "final"]
          sourceHold,  \* [Sources -> source_settlement_holds.status]
          held,        \* [Sources -> Payment's record of the hold]
          queue,       \* hold effects not done
          parkedHolds, \* hold effects parked
          acquiring    \* acquire calls sent and not yet arrived

sourceVars == <<source, sourceHold, held, queue, parkedHolds, acquiring>>

OpenHold(s) == sourceHold[s] \in {"preparing", "active", "needs_review"}

\* One row per source; SetHoldStatus is a compare-and-set on the states given.
PrepareHold(s) == IF sourceHold[s] = "none" THEN [sourceHold EXCEPT ![s] = "preparing"] ELSE sourceHold

SetHoldStatus(s, from, to) == IF sourceHold[s] \in from THEN [sourceHold EXCEPT ![s] = to] ELSE sourceHold

prepareSourceHold(s) ==
    /\ sourceHold' = PrepareHold(s)
    /\ queue' = IF sourceHold[s] = "none" THEN queue \cup {<<"acquire", s>>} ELSE queue

\* CreateReturn and createRefund, with the ledger on or not yet.
OpenSource(s) ==
    /\ source[s] = "none"
    /\ source' = [source EXCEPT ![s] = "open"]
    /\ prepareSourceHold(s) \/ UNCHANGED <<sourceHold, queue>>
    /\ UNCHANGED <<held, parkedHolds, acquiring>>

\* A return is rejected or refunded; a refund succeeds, fails or is rejected.
EndSource(s) ==
    /\ source[s] = "open"
    /\ source' = [source EXCEPT ![s] = "final"]
    /\ UNCHANGED <<sourceHold, held, queue, parkedHolds, acquiring>>

ListMissing == {s \in Sources : source[s] = "open" /\ sourceHold[s] = "none"}

ListUnreleasedAny == {s \in Sources : OpenHold(s)}

ListUnreleased == {s \in Sources : source[s] = "final" /\ OpenHold(s)}

backfillSourceHold(s) ==
    /\ s \in ListMissing
    /\ prepareSourceHold(s)
    /\ UNCHANGED <<source, held, parkedHolds, acquiring>>

EnsureSourceHolds(s) ==
    /\ s \in ListUnreleased
    /\ sourceHold' = SetHoldStatus(s, {"preparing", "active", "needs_review"}, "releasing")
    /\ queue' = queue \cup {<<"release", s>>}
    /\ UNCHANGED <<source, held, parkedHolds, acquiring>>

\* acquireSourceHold sends its request only for a hold still preparing.
sendAcquire(s) ==
    /\ <<"acquire", s>> \in queue
    /\ IF sourceHold[s] = "preparing"
       THEN acquiring' = acquiring \cup {s} /\ UNCHANGED queue
       ELSE queue' = queue \ {<<"acquire", s>>} /\ UNCHANGED acquiring
    /\ UNCHANGED <<source, sourceHold, held, parkedHolds>>

AcquireHoldReopens(old) == {"active"}

\* Payment's hold, recorded once; released holds and tombstones stay.
AcquireHold(old) == IF old = "none" THEN {"active", "claimed"} ELSE {old}

SourceHoldAnswer(record) == [active |-> "active", claimed |-> "needs_review", released |-> "released"][record]

\* The request arrives; its answer is recorded, or lost.
acquireSourceHold(s) ==
    /\ s \in acquiring
    /\ acquiring' = acquiring \ {s}
    /\ \E record \in AcquireHold(held[s]) :
          /\ held' = [held EXCEPT ![s] = record]
          /\ \/ UNCHANGED <<sourceHold, queue>>
             \/ /\ sourceHold' = SetHoldStatus(s, {"preparing"}, SourceHoldAnswer(record))
                /\ queue' = queue \ {<<"acquire", s>>}
    /\ UNCHANGED <<source, parkedHolds>>

releaseSourceHold(s) ==
    /\ <<"release", s>> \in queue
    /\ IF sourceHold[s] = "releasing"
       THEN /\ held' = [held EXCEPT ![s] = "released"]
            /\ \/ UNCHANGED <<sourceHold, queue>>
               \/ sourceHold' = SetHoldStatus(s, {"releasing"}, "released") /\ UNCHANGED queue
       ELSE queue' = queue \ {<<"release", s>>} /\ UNCHANGED <<sourceHold, held>>
    /\ UNCHANGED <<source, parkedHolds, acquiring>>

\* RecordFailure: a refusal, or the last failure that is allowed.
parkHoldEffect(e) ==
    /\ e \in queue
    /\ queue' = queue \ {e} /\ parkedHolds' = parkedHolds \cup {e}
    /\ UNCHANGED <<source, sourceHold, held, acquiring>>

\* ReplayEffect, by an admin.
replayHoldEffect(e) ==
    /\ e \in parkedHolds
    /\ queue' = queue \cup {e} /\ parkedHolds' = parkedHolds \ {e}
    /\ UNCHANGED <<source, sourceHold, held, acquiring>>

SourceHoldsInit ==
    /\ source = [s \in Sources |-> "none"] /\ sourceHold = [s \in Sources |-> "none"]
    /\ held = [s \in Sources |-> "none"] /\ queue = {} /\ parkedHolds = {} /\ acquiring = {}

SourceHoldsStep ==
    \E s \in Sources :
        \/ OpenSource(s) \/ EndSource(s) \/ backfillSourceHold(s) \/ EnsureSourceHolds(s)
        \/ sendAcquire(s) \/ acquireSourceHold(s) \/ releaseSourceHold(s)
        \/ \E kind \in {"acquire", "release"} : parkHoldEffect(<<kind, s>>) \/ replayHoldEffect(<<kind, s>>)

SourceHoldsSpec == SourceHoldsInit /\ [][SourceHoldsStep]_sourceVars

(* A payout is not held for ever without anybody knowing: once a return or *)
(* refund has ended, its hold is gone from Payment's ledger for good, even *)
(* when an acquire sent earlier arrives after the release, or the effect   *)
(* that releases it is parked for an operator to replay.                   *)
EndedSourcesFreePayout ==
    \A s \in Sources : (source[s] = "final") ~>
        ([](held[s] \in {"none", "released"}) \/ <<"release", s>> \in parkedHolds)

(* While its source is open a hold Payment has recorded stays recorded:    *)
(* the sweep never releases the payout of a return or refund in progress.  *)
OpenSourceKeepsHold ==
    \A s \in Sources : source[s] = "open" => held[s] # "released"

-----------------------------------------------------------------------------
(***************************************************************************)
(* Response deadlines of cases (pkg/casesla, run by Order, Payment,        *)
(* Shipment and Notification over their own databases): the owner of a     *)
(* resource syncs its stage, admins extend, assign and activate, a worker  *)
(* records breaches and queues reminders, overdue notices and escalations  *)
(* once per deadline, and delivers them with leases and attempts.          *)
(*                                                                         *)
(* One work item; time is in units of the shortest duration.  The notices  *)
(* of the standing deadline are followed, no longer those of an earlier    *)
(* one, and one notice stands for those of all its recipients.  A command  *)
(* made for an older version, or repeated with its key, changes nothing    *)
(* and is left out.                                                        *)
(***************************************************************************)
CONSTANTS
  Stages, Duration(_),     \* a stage's name and the time it allows
  OverallLimit,            \* nothing moves a deadline past it
  Escalations, Step,       \* rounds after the deadline, and the time between them
  Admins, OnCall, Escalation, NoOne,   \* who is told, and who besides when it is late
  Workers, MaxAttempts,
  MaxTime, MaxDeadlines, MaxReplays, MaxCrashes   \* bounds of the model

ASSUME DeadlineAssumption == OverallLimit \in Nat /\ \A s \in Stages : Duration(s) \in Nat

VARIABLES
  now,
  item,
  admins,      \* who is an active admin that may manage support
  notice,      \* the notices of the standing deadline, by kind
  worker,      \* Workers -> the notice it publishes
  replays, crashes,
  left         \* the time its operators have left, by their own count

deadlinesVars == <<now, item, admins, notice, worker, replays, crashes, left>>

Round(n) == CASE n = 1 -> "escalation 1" [] n = 2 -> "escalation 2" [] n = 3 -> "escalation 3"
NoticeKinds == {"reminder", "overdue"} \cup {Round(n) : n \in 1..Escalations}

NotQueued == [state |-> "none", attempts |-> 0, leased |-> FALSE]
Idle == [id |-> NoOne, attempt |-> 0, answer |-> "waiting"]
NotPaused == -1
NotBreached == -1

Earlier(a, b) == IF a < b THEN a ELSE b

-----------------------------------------------------------------------------
(* The deadline.                                                           *)

\* A stage that starts at a time: three quarters of it pass before a reminder.
start(i, stage, pause, at) ==
  LET due == Earlier(at + Duration(stage), i.overall)
  IN  [i EXCEPT !.stage = stage, !.due = due, !.reminder = at + ((due - at) * 3) \div 4,
                !.pausedAt = IF pause THEN at ELSE NotPaused, !.active = TRUE, !.attention = FALSE]

NewItem(stage, legacy) ==
  start([stage |-> stage, due |-> 0, reminder |-> 0, overall |-> OverallLimit, pausedAt |-> NotPaused,
         active |-> TRUE, attention |-> FALSE, deadline |-> 1, legacy |-> legacy, breachedAt |-> NotBreached,
         assignee |-> NoOne], stage, FALSE, 0)

\* A wait for the buyer stops the operators' clock, not the overall one.
EffectiveDueAt(i) == IF i.pausedAt # NotPaused THEN i.overall ELSE i.due

Paused(i) == i.pausedAt # NotPaused

LateForgotten(i) == i

\* A deadline that was missed stays missed, whatever follows.
Breached(i) ==
  IF i.active /\ i.breachedAt = NotBreached /\ now >= EffectiveDueAt(i)
  THEN [i EXCEPT !.breachedAt = EffectiveDueAt(i)] ELSE i

ResumedAsLeft(i) == [i EXCEPT !.pausedAt = NotPaused]

\* The operators keep the time they had left when the wait began.
Resumed(i) ==
  LET due == Earlier(i.due + (now - i.pausedAt), i.overall)
  IN  [i EXCEPT !.due = due, !.reminder = Earlier(@ + (now - i.pausedAt), due), !.pausedAt = NotPaused]

\* The same stage again, or the same wait, keeps its deadline.
Apply(stage, pause) ==
  LET i == Breached(item)
      next == [i EXCEPT !.deadline = @ + 1]
  IN  CASE stage = "none" -> IF item.active THEN [next EXCEPT !.active = FALSE] ELSE item
        [] stage # "none" /\ pause -> IF Paused(i) /\ i.active THEN i ELSE [next EXCEPT !.pausedAt = now]
        [] stage # "none" /\ ~pause /\ Paused(i) /\ i.active /\ i.stage = stage -> Resumed(next)
        [] OTHER -> IF i.stage # stage \/ ~i.active
                    THEN [start(next, stage, FALSE, now) EXCEPT !.legacy = FALSE] ELSE i

\* What the operators would count themselves: a stage's time, less what
\* passed of it outside waits.
Left(new) ==
  CASE new.deadline = item.deadline -> left
    [] new.deadline # item.deadline /\ (Paused(item) \/ Paused(new)) /\ new.stage = item.stage /\ item.active -> left
    [] OTHER -> new.due - now

NewDeadline ==
  /\ notice' = [n \in NoticeKinds |-> NotQueued]
  /\ worker' = [w \in Workers |-> Idle]

\* In the transaction of the resource's own change.  Only an open case is
\* put on hold.
Sync(stage, pause) ==
  LET new == Apply(stage, pause)
  IN  /\ pause => item.active
      /\ new # item /\ new.deadline <= MaxDeadlines
      /\ item' = new /\ left' = Left(new)
      /\ IF new.deadline = item.deadline THEN UNCHANGED <<notice, worker>> ELSE NewDeadline
      /\ UNCHANGED <<now, admins, replays, crashes>>

-----------------------------------------------------------------------------
(* The admins' commands.                                                   *)

Command(new) ==
  /\ item.active /\ new # item /\ item' = new
  /\ UNCHANGED <<now, admins, crashes>>

Assign(a) ==
  /\ a \in admins \cup {NoOne} /\ Command([item EXCEPT !.assignee = a]) /\ UNCHANGED <<notice, worker, replays, left>>

Extend(due) ==
  LET i == Breached(item)
  IN  /\ item.active /\ ~Paused(item) /\ due > item.due /\ due > now /\ due <= item.overall
      /\ item.deadline < MaxDeadlines
      /\ Command([i EXCEPT !.due = due, !.reminder = now + ((due - now) * 3) \div 4,
                           !.deadline = @ + 1, !.attention = FALSE])
      /\ left' = due - now /\ NewDeadline
      /\ UNCHANGED replays

\* An imported case sends nothing until an admin activates it.
Activate ==
  item.legacy /\ Command([item EXCEPT !.legacy = FALSE]) /\ UNCHANGED <<notice, worker, replays, left>>

ReplayNotices ==
  /\ item.active /\ \E n \in NoticeKinds : notice[n].state = "parked"
  /\ replays < MaxReplays /\ replays' = replays + 1
  /\ notice' = [n \in NoticeKinds |-> IF notice[n].state = "parked"
                                   THEN [state |-> "queued", attempts |-> 0, leased |-> FALSE] ELSE notice[n]]
  /\ UNCHANGED <<now, item, admins, worker, crashes, left>>

AdminLeaves(a) ==
  /\ admins' = admins \ {a} /\ a \in admins
  /\ UNCHANGED <<now, item, notice, worker, replays, crashes, left>>

-----------------------------------------------------------------------------
(* The worker's scan, one transaction.                                     *)

\* It catches up with everything due since it last ran.
Notices(i) ==
  IF ~i.active \/ i.legacy THEN {}
  ELSE IF now < EffectiveDueAt(i) THEN (IF ~Paused(i) /\ now >= i.reminder THEN {"reminder"} ELSE {})
       ELSE {"overdue"} \cup {Round(n) : n \in {m \in 1..Escalations : now >= EffectiveDueAt(i) + m * Step}}

Recipients(i, n) ==
  (IF i.assignee # NoOne THEN {i.assignee} ELSE OnCall) \cup (IF n = "reminder" THEN {} ELSE Escalation)

Receipted(n) == notice[n].state # "none"

\* An assignee who left is taken off.  A notice without an active recipient is
\* left for the next scan; one that was queued is not queued again.
Scan ==
  LET kept == IF item.assignee \in admins THEN item ELSE [item EXCEPT !.assignee = NoOne]
      seen == [Breached(kept) EXCEPT !.attention = @ \/ now >= EffectiveDueAt(kept) + 3 * Step]
  IN  /\ item.active
      /\ item' = seen
      /\ notice' = [n \in NoticeKinds |->
           IF n \in Notices(seen) /\ Recipients(seen, n) \cap admins # {} /\ ~Receipted(n)
           THEN [NotQueued EXCEPT !.state = "queued"] ELSE notice[n]]
      /\ UNCHANGED <<now, admins, worker, replays, crashes, left>>

-----------------------------------------------------------------------------
(* Delivery.                                                               *)

ExhaustedNever(n) == FALSE

\* A worker may have stopped during the last attempt.
Exhausted(n) == notice[n].attempts >= MaxAttempts /\ ~notice[n].leased

Park(n) ==
  /\ notice[n].state = "queued" /\ Exhausted(n)
  /\ notice' = [notice EXCEPT ![n].state = "parked"]
  /\ UNCHANGED <<now, item, admins, worker, replays, crashes, left>>

Claim(w, n) ==
  /\ worker[w] = Idle /\ notice[n].state = "queued" /\ ~notice[n].leased /\ notice[n].attempts < MaxAttempts
  /\ notice' = [notice EXCEPT ![n].leased = TRUE, ![n].attempts = @ + 1]
  /\ worker' = [worker EXCEPT ![w] = [id |-> n, attempt |-> notice[n].attempts + 1, answer |-> "waiting"]]
  /\ UNCHANGED <<now, item, admins, replays, crashes, left>>

\* The bus takes the notice or does not, or its answer is lost.
Publish(w, taken) ==
  /\ worker[w] # Idle /\ worker[w].answer = "waiting"
  /\ worker' = [worker EXCEPT ![w].answer = IF taken THEN "taken" ELSE "failed"]
  /\ UNCHANGED <<now, item, admins, notice, replays, crashes, left>>

\* Only the attempt that is still the last one is recorded.
Record(w) ==
  LET n == worker[w].id
  IN  /\ worker[w].answer # "waiting"
      /\ notice' = IF notice[n].attempts # worker[w].attempt THEN notice
                   ELSE IF worker[w].answer = "taken" THEN [notice EXCEPT ![n].state = "delivered", ![n].leased = FALSE]
                   ELSE [notice EXCEPT ![n].leased = FALSE,
                                       ![n].state = IF notice[n].attempts >= MaxAttempts THEN "parked" ELSE @]
      /\ worker' = [worker EXCEPT ![w] = Idle]
      /\ UNCHANGED <<now, item, admins, replays, crashes, left>>

\* A worker that stops, or is held up for longer than its lease.
Crash(w) ==
  /\ worker[w] # Idle /\ crashes < MaxCrashes /\ crashes' = crashes + 1
  /\ worker' = [worker EXCEPT ![w] = Idle]
  /\ UNCHANGED <<now, item, admins, notice, replays, left>>

LeaseEnds(n) ==
  /\ notice[n].leased /\ \A w \in Workers : worker[w].id # n
  /\ notice' = [notice EXCEPT ![n].leased = FALSE]
  /\ UNCHANGED <<now, item, admins, worker, replays, crashes, left>>

-----------------------------------------------------------------------------
TimePasses ==
  /\ now < MaxTime /\ now' = now + 1
  /\ left' = IF Paused(item) THEN left ELSE left - 1
  /\ UNCHANGED <<item, admins, notice, worker, replays, crashes>>

DeadlinesInit ==
  /\ now = 0
  /\ item \in {NewItem(stage, legacy) : stage \in Stages, legacy \in BOOLEAN}
  /\ admins = Admins
  /\ notice = [n \in NoticeKinds |-> NotQueued]
  /\ worker = [w \in Workers |-> Idle]
  /\ replays = 0 /\ crashes = 0
  /\ left = item.due

DeadlinesNext ==
  \/ TimePasses \/ Scan \/ Activate \/ ReplayNotices
  \/ \E stage \in Stages \cup {"none"}, pause \in BOOLEAN : Sync(stage, pause)
  \/ \E a \in Admins \cup {NoOne} : Assign(a)
  \/ \E a \in Admins : AdminLeaves(a)
  \/ \E due \in 1..OverallLimit : Extend(due)
  \/ \E n \in NoticeKinds : Park(n) \/ LeaseEnds(n) \/ \E w \in Workers : Claim(w, n)
  \/ \E w \in Workers : Record(w) \/ Crash(w) \/ \E taken \in BOOLEAN : Publish(w, taken)

DeadlinesSpec == DeadlinesInit /\ [][DeadlinesNext]_deadlinesVars

-----------------------------------------------------------------------------
\* No step that moves or ends a deadline forgets that it was missed, and
\* waits for the buyer cost the operators none of their time, short of the
\* overall limit (deadline.go Apply, Extend).
MissedStaysMissed ==
  [][(item.active /\ now >= EffectiveDueAt(item) /\ item'.deadline # item.deadline)
       => item'.breachedAt # NotBreached]_deadlinesVars
OperatorsKeepTheirTime ==
  item.active /\ ~Paused(item) /\ item.due < item.overall => item.due - now = left

\* While a deadline stands and somebody can be told, what is due is told: it
\* reaches the bus, or is parked where an admin replays it (worker.go Tick,
\* deliver).
DueIsTold ==
  \A n \in NoticeKinds :
    (n \in Notices(item))
      ~> (notice[n].state \in {"delivered", "parked"}
          \/ n \notin Notices(item) \/ Recipients(item, n) \cap admins = {})

-----------------------------------------------------------------------------
(***************************************************************************)
(* Evidence images of support cases and of goods receipts (Order           *)
(* support_attachments.go, receipt_evidence.go): an upload is put in the   *)
(* private bucket, then recorded; a message of its owner, or the step it   *)
(* proves, attaches it; a worker removes uploads nobody attached, evidence *)
(* of cases closed long ago and receipt photos past their retention.       *)
(*                                                                         *)
(* One case and one receipt.  Several workers may clean at once; each      *)
(* lists first and marks row by row later.                                 *)
(***************************************************************************)
CONSTANTS
  Owners,          \* the case's buyer and the shop
  Files,           \* uploads that may be made
  Cleaners,
  MaxAttachments,
  Grace, Retention, ReceiptRetention,  \* ages in units of the shortest
  MaxFileTime          \* bound of the model

ASSUME AgesAssumption == {Grace, Retention, ReceiptRetention} \subseteq Nat

VARIABLES
  fileTime,
  row,       \* case_attachments, by file
  object,    \* files in the bucket
  putting,   \* files put and not recorded yet
  case,      \* the case's status and when it was closed
  cleaner     \* Cleaners -> what it listed, and what it removes

attachmentsVars == <<fileTime, row, object, putting, case, cleaner>>

NoFile == "none"
NoRow == [state |-> "none", owner |-> "none", of |-> "none", at |-> 0]
NothingListed == [listed |-> {}, deleting |-> NoFile]

\* The row's state as the worker saw it.
Seen(f) == [file |-> f, state |-> row[f].state]

-----------------------------------------------------------------------------
(* Uploading.                                                              *)

\* The image is decoded and re-encoded before it is put.
Put(f, o) ==
  /\ row[f] = NoRow /\ f \notin object
  /\ \A g \in Files : putting[g] = "none"
  /\ object' = object \cup {f} /\ putting' = [putting EXCEPT ![f] = o]
  /\ UNCHANGED <<fileTime, row, case, cleaner>>

CreateAttachment(f) ==
  /\ putting[f] # "none"
  /\ row' = [row EXCEPT ![f] = [state |-> "uploaded", owner |-> putting[f], of |-> "none", at |-> fileTime]]
  /\ putting' = [putting EXCEPT ![f] = "none"]
  /\ UNCHANGED <<fileTime, object, case, cleaner>>

\* Without a row the object is removed, or left where nobody reaches it.
UploadFails(f) ==
  /\ putting[f] # "none" /\ putting' = [putting EXCEPT ![f] = "none"]
  /\ object' \in {object, object \ {f}}
  /\ UNCHANGED <<fileTime, row, case, cleaner>>

-----------------------------------------------------------------------------
(* Attaching, in the transaction of the message or of the step.            *)

Attachable(f, o) == row[f].state = "uploaded" /\ row[f].owner = o

\* All of the files, or the message is not written.
Attach(files, o, of) ==
  /\ files # {} /\ Cardinality(files) <= MaxAttachments /\ \A f \in files : Attachable(f, o)
  /\ row' = [f \in Files |-> IF f \in files THEN [row[f] EXCEPT !.state = "attached", !.of = of, !.at = fileTime] ELSE row[f]]
  /\ UNCHANGED <<fileTime, object, putting, case, cleaner>>

AttachToMessage(files, o) == case.status # "closed" /\ Attach(files, o, "message")

attachEvidence(files, o) == Attach(files, o, "receipt")

\* A resolved case that nobody reopened in time.
CloseCase ==
  /\ case.status = "open" /\ case' = [status |-> "closed", at |-> fileTime]
  /\ UNCHANGED <<fileTime, row, object, putting, cleaner>>

\* What a reader with access to the case or the receipt can open.
Readable == {f \in Files : row[f].state = "attached"}

-----------------------------------------------------------------------------
(* Cleaning.                                                               *)

ListOrphanAttachments == {f \in Files : row[f].state = "uploaded" /\ row[f].at + Grace < fileTime}

ListExpiredAttachments ==
  {f \in Files : row[f].state = "attached" /\ row[f].of = "message" /\ case.status = "closed" /\ case.at + Retention < fileTime}

ExpiredReceiptEvidence ==
  {f \in Files : row[f].state = "attached" /\ row[f].of = "receipt" /\ row[f].at + ReceiptRetention < fileTime}

Listed == ListOrphanAttachments \cup ListExpiredAttachments \cup ExpiredReceiptEvidence

List(w) ==
  /\ cleaner[w] = NothingListed /\ Listed # {}
  /\ cleaner' = [cleaner EXCEPT ![w].listed = {Seen(f) : f \in Listed}]
  /\ UNCHANGED <<fileTime, row, object, putting, case>>

AnyState(seen) == row[seen.file].state # "deleted"

\* An upload attached meanwhile is kept.
StillAsListed(seen) == row[seen.file].state = seen.state

\* The row becomes a tombstone before its object goes.
MarkAttachmentDeleted(w, seen) ==
  LET rest == cleaner[w].listed \ {seen}
  IN  /\ cleaner[w].deleting = NoFile /\ seen \in cleaner[w].listed
      /\ row' = IF StillAsListed(seen) THEN [row EXCEPT ![seen.file].state = "deleted"] ELSE row
      /\ cleaner' = [cleaner EXCEPT ![w] = [listed |-> rest, deleting |-> IF StillAsListed(seen) THEN seen.file ELSE NoFile]]
      /\ UNCHANGED <<fileTime, object, putting, case>>

\* A removal that fails leaves an object nobody reaches.
DeleteObject(w) ==
  /\ cleaner[w].deleting # NoFile
  /\ cleaner' = [cleaner EXCEPT ![w].deleting = NoFile]
  /\ object' \in {object, object \ {cleaner[w].deleting}}
  /\ UNCHANGED <<fileTime, row, putting, case>>

CleanerCrash(w) ==
  /\ cleaner[w] # NothingListed /\ cleaner' = [cleaner EXCEPT ![w] = NothingListed]
  /\ UNCHANGED <<fileTime, row, object, putting, case>>

FilesAge ==
  /\ fileTime < MaxFileTime /\ fileTime' = fileTime + 1
  /\ UNCHANGED <<row, object, putting, case, cleaner>>

-----------------------------------------------------------------------------
AttachmentsInit ==
  /\ fileTime = 0 /\ object = {} /\ case = [status |-> "open", at |-> 0]
  /\ row = [f \in Files |-> NoRow] /\ putting = [f \in Files |-> "none"]
  /\ cleaner = [w \in Cleaners |-> NothingListed]

AttachmentsNext ==
  \/ FilesAge \/ CloseCase
  \/ \E f \in Files : CreateAttachment(f) \/ UploadFails(f) \/ \E o \in Owners : Put(f, o)
  \/ \E files \in SUBSET Files, o \in Owners : AttachToMessage(files, o) \/ attachEvidence(files, o)
  \/ \E w \in Cleaners : List(w) \/ DeleteObject(w) \/ CleanerCrash(w)
  \/ \E w \in Cleaners : \E seen \in cleaner[w].listed : MarkAttachmentDeleted(w, seen)

AttachmentsSpec == AttachmentsInit /\ [][AttachmentsNext]_attachmentsVars

-----------------------------------------------------------------------------
\* Evidence that a reader can open is in the bucket, and nothing that was
\* attached is removed before its retention ends, however late a worker acts
\* on what it listed (CleanSupportAttachments, MarkAttachmentDeleted).
EvidenceIsKept ==
  /\ Readable \subseteq object
  /\ \A f \in Files : row[f].state = "deleted" =>
       \/ row[f].of = "none" /\ row[f].at + Grace < fileTime
       \/ row[f].of = "message" /\ case.status = "closed" /\ case.at + Retention < fileTime
       \/ row[f].of = "receipt" /\ row[f].at + ReceiptRetention < fileTime

\* What a case promises is kept: the disputed money is held, a hold that was
\* released stays released, the case follows its refund, its evidence is there,
\* and its operators have the time they were given
\* (support_cases.go, support_holds.go, support_attachments.go, pkg/casesla).
CasesAreKept ==
  /\ DisputedMoneyIsHeld /\ ReleasedHoldStaysReleased /\ CaseFollowsRefund
  /\ EvidenceIsKept /\ OperatorsKeepTheirTime

=============================================================================
