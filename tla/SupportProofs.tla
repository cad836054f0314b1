---------------------------- MODULE SupportProofs ----------------------------
(***************************************************************************)
(* What SupportCases promises holds for any number of cases, refunds,      *)
(* intakes, sources of holds, evidence files and workers.  Four parts with *)
(* an invariant each: the holds of returns and refunds (SourceInv), the    *)
(* cases with their holds and refunds (SupportInv), the evidence files     *)
(* (FilesInv) and the response deadline (DeadlineInv).                     *)
(*                                                                         *)
(* That disputed money is held depends on three records agreeing: the      *)
(* case, Order's hold row and Payment's ledger, with requests and answers  *)
(* under way between them.  HoldsAgree says how they may differ: Order     *)
(* counts a hold as confirmed only when the ledger has it, asks for its    *)
(* release only when the case is closed, and the ledger releases nothing   *)
(* Order did not ask for.                                                  *)
(***************************************************************************)
EXTENDS SupportCases, SequenceTheorems, TLAPS

(***************************************************************************)
(* Holds of returns and refunds.                                           *)
(***************************************************************************)
SourceStates == {"none", "open", "final"}
SourceHoldStates == {"none", "preparing", "active", "needs_review", "releasing", "released"}
LedgerStates == {"none", "active", "claimed", "released"}

\* Only an ended source's hold is sent for release, and only then released.
ReleaseFollowsEnd ==
    \A s \in Sources :
        sourceHold[s] \in {"releasing", "released"} \/ held[s] = "released" => source[s] = "final"

SourceInv ==
    /\ source \in [Sources -> SourceStates]
    /\ sourceHold \in [Sources -> SourceHoldStates]
    /\ held \in [Sources -> LedgerStates]
    /\ ReleaseFollowsEnd

LEMMA InitHasSourceInv == SourceHoldsInit => SourceInv
  BY DEF SourceHoldsInit, SourceInv, SourceStates, SourceHoldStates, LedgerStates, ReleaseFollowsEnd

(* The sweep opens, ends and sends; the effects carry it to Payment.       *)
LEMMA NextKeepsSourceInv == SourceInv /\ [SourceHoldsStep]_sourceVars => SourceInv'
  <1> SUFFICES ASSUME SourceInv, [SourceHoldsStep]_sourceVars PROVE SourceInv'
    OBVIOUS
  <1> USE DEF SourceInv, SourceStates, SourceHoldStates, LedgerStates, ReleaseFollowsEnd
  <1>1. ASSUME NEW s \in Sources, OpenSource(s) \/ backfillSourceHold(s)
        PROVE  SourceInv'
    <2>1. sourceHold' = sourceHold \/ (sourceHold[s] = "none" /\ sourceHold' = [sourceHold EXCEPT ![s] = "preparing"])
      BY <1>1 DEF OpenSource, backfillSourceHold, prepareSourceHold, PrepareHold
    <2>2. held' = held /\ (source' = source \/ (source[s] = "none" /\ source' = [source EXCEPT ![s] = "open"]))
      BY <1>1 DEF OpenSource, backfillSourceHold
    <2>. QED BY <2>1, <2>2
  <1>2. ASSUME NEW s \in Sources, EndSource(s)
        PROVE  SourceInv'
    BY <1>2 DEF EndSource
  <1>3. ASSUME NEW s \in Sources, EnsureSourceHolds(s)
        PROVE  SourceInv'
    BY <1>3 DEF EnsureSourceHolds, ListUnreleased, SetHoldStatus, OpenHold
  <1>4. ASSUME NEW s \in Sources, sendAcquire(s)
        PROVE  SourceInv'
    BY <1>4 DEF sendAcquire
  <1>5. ASSUME NEW s \in Sources, acquireSourceHold(s)
        PROVE  SourceInv'
    <2>1. PICK record \in AcquireHold(held[s]) :
            /\ held' = [held EXCEPT ![s] = record]
            /\ sourceHold' = sourceHold \/ sourceHold' = SetHoldStatus(s, {"preparing"}, SourceHoldAnswer(record))
      BY <1>5 DEF acquireSourceHold
    <2>2. record \in {"active", "claimed", "released"} /\ (record = "released" => held[s] = "released")
      BY <2>1 DEF AcquireHold
    <2>3. /\ SourceHoldAnswer(record) \in {"active", "needs_review", "released"}
          /\ SourceHoldAnswer(record) = "released" => record = "released"
      BY <2>2 DEF SourceHoldAnswer
    <2>4. UNCHANGED source
      BY <1>5 DEF acquireSourceHold
    <2>. QED BY <2>1, <2>2, <2>3, <2>4 DEF SetHoldStatus
  <1>6. ASSUME NEW s \in Sources, releaseSourceHold(s)
        PROVE  SourceInv'
    BY <1>6 DEF releaseSourceHold, SetHoldStatus
  <1>7. CASE UNCHANGED sourceVars
    BY <1>7 DEF sourceVars
  <1>8. ASSUME NEW e, parkHoldEffect(e) \/ replayHoldEffect(e)
        PROVE  SourceInv'
    BY <1>8 DEF parkHoldEffect, replayHoldEffect
  <1>. QED BY <1>1, <1>2, <1>3, <1>4, <1>5, <1>6, <1>7, <1>8 DEF SourceHoldsStep

(* While a return or refund is in progress its hold is never released,     *)
(* however late its acquire arrives.                                       *)
THEOREM OpenSourceAlwaysKeepsHold == SourceHoldsSpec => []OpenSourceKeepsHold
  <1>1. SourceInv => OpenSourceKeepsHold
    BY DEF SourceInv, ReleaseFollowsEnd, OpenSourceKeepsHold
  <1>. QED BY <1>1, InitHasSourceInv, NextKeepsSourceInv, PTL DEF SourceHoldsSpec

\* What Payment has released it never holds again for the same source.
ReleaseIsForGood == \A s \in Sources : held[s] = "released" => held'[s] = "released"

(* A released hold stays released in Payment's ledger: an acquire that was *)
(* sent earlier finds its tombstone, so the payout is not held again.      *)
THEOREM ReleasesStand == SourceHoldsSpec => [][ReleaseIsForGood]_sourceVars
  <1>1. SourceInv /\ [SourceHoldsStep]_sourceVars => [ReleaseIsForGood]_sourceVars
    <2> SUFFICES ASSUME SourceInv, SourceHoldsStep, NEW s \in Sources, held[s] = "released"
                 PROVE  held'[s] = "released"
      BY DEF ReleaseIsForGood
    <2>1. PICK x \in Sources :
            \/ OpenSource(x) \/ EndSource(x) \/ backfillSourceHold(x) \/ EnsureSourceHolds(x)
            \/ sendAcquire(x) \/ acquireSourceHold(x) \/ releaseSourceHold(x)
            \/ \E kind \in {"acquire", "release"} : parkHoldEffect(<<kind, x>>) \/ replayHoldEffect(<<kind, x>>)
      BY DEF SourceHoldsStep
    <2>2. CASE acquireSourceHold(x)
      BY <2>2 DEF acquireSourceHold, AcquireHold, SourceInv
    <2>3. CASE releaseSourceHold(x)
      BY <2>3 DEF releaseSourceHold, SourceInv
    <2>. QED BY <2>1, <2>2, <2>3
           DEF OpenSource, EndSource, backfillSourceHold, EnsureSourceHolds, sendAcquire, parkHoldEffect, replayHoldEffect
  <1>. QED BY <1>1, InitHasSourceInv, NextKeepsSourceInv, PTL DEF SourceHoldsSpec

-----------------------------------------------------------------------------
(***************************************************************************)
(* Holds of support cases.                                                 *)
(***************************************************************************)
CaseStatuses == {"none", "open", "in_progress", "waiting_buyer", "waiting_vendor",
                 "resolution_pending", "resolved", "closed"}
CaseRows == [status : CaseStatuses, money : BOOLEAN,
             kind : {"none", "no_action", "refund", "return"}, ref : Nat]

\* How case, hold row and ledger may differ.
HoldAgrees(status, money, hold, ledger) ==
    /\ hold \in {"active", "needs_review"} => ledger \in {"active", "claimed"}
    /\ hold \in {"releasing", "released"} => status = "closed"
    /\ hold = "released" => ledger = "released"
    /\ ledger = "released" => hold \in {"releasing", "released"}
    /\ status = "resolution_pending" /\ money => hold \in {"active", "needs_review"}

HoldsAgree == \A c \in CaseIds : HoldAgrees(cases[c].status, cases[c].money, caseHold[c], holdLedger[c])

\* An answer under way tells what the ledger has recorded.
AnswersAreRecorded ==
    \A c \in CaseIds : \A to \in {"active", "needs_review", "released"} :
        <<c, to>> \in answers => holdLedger[c] # "none" /\ (to = "released" => holdLedger[c] = "released")

HoldInv ==
    /\ cases \in [CaseIds -> CaseRows]
    /\ caseHold \in [CaseIds -> SourceHoldStates]
    /\ holdLedger \in [CaseIds -> LedgerStates]
    /\ HoldsAgree /\ AnswersAreRecorded

LEMMA CaseTransitions ==
  ASSUME NEW from \in CaseStatuses, NEW to, CanTransitionCase(from, to)
  PROVE  to \in CaseStatuses /\ from \notin {"none", "closed"}
  BY DEF CaseStatuses, CanTransitionCase, caseTransitions

\* The first case, opened before or after the ledger, waits for no refund.
LEMMA FirstCaseWaitsForNone ==
  ASSUME NEW old \in {NoCase} \cup LegacyCases
  PROVE  old \in CaseRows /\ old.status # "resolution_pending" /\ old.kind # "refund"
  <1>1. CASE old = NoCase
    BY <1>1 DEF NoCase, CaseRows, CaseStatuses
  <1>2. CASE old \in {[NoCase EXCEPT !.status = st, !.money = TRUE] : st \in {"open", "in_progress", "waiting_buyer", "waiting_vendor"}}
    <2>1. PICK st \in {"open", "in_progress", "waiting_buyer", "waiting_vendor"} : old = [NoCase EXCEPT !.status = st, !.money = TRUE]
      BY <1>2
    <2>2. old = [status |-> st, money |-> TRUE, kind |-> "none", ref |-> 0]
      BY <2>1 DEF NoCase
    <2>. QED BY <2>2 DEF CaseRows, CaseStatuses
  <1>3. CASE old \in {[NoCase EXCEPT !.status = st, !.money = TRUE, !.kind = "no_action"] : st \in {"resolved", "closed"}}
    <2>1. PICK st \in {"resolved", "closed"} : old = [NoCase EXCEPT !.status = st, !.money = TRUE, !.kind = "no_action"]
      BY <1>3
    <2>2. old = [status |-> st, money |-> TRUE, kind |-> "no_action", ref |-> 0]
      BY <2>1 DEF NoCase
    <2>. QED BY <2>2 DEF CaseRows, CaseStatuses
  <1>. QED BY <1>1, <1>2, <1>3 DEF LegacyCases

LEMMA InitHasHoldInv == SupportInit => HoldInv
  <1> SUFFICES ASSUME SupportInit PROVE HoldInv
    OBVIOUS
  <1>1. NoCase \in CaseRows /\ NoCase.status = "none"
    BY DEF NoCase, CaseRows, CaseStatuses
  <1>2. PICK first \in {NoCase} \cup LegacyCases : cases = [c \in CaseIds |-> IF c = 1 THEN first ELSE NoCase]
    BY DEF SupportInit
  <1>3. cases \in [CaseIds -> CaseRows] /\ \A c \in CaseIds : cases[c].status # "resolution_pending"
    BY <1>1, <1>2, FirstCaseWaitsForNone
  <1>. QED BY <1>3 DEF SupportInit, HoldInv, HoldsAgree, HoldAgrees, AnswersAreRecorded, SourceHoldStates, LedgerStates

(* A case that moves takes its hold along: closing sends it for release.   *)
LEMMA MoveKeepsHoldInv ==
  ASSUME HoldInv, NEW c \in CaseIds, NEW ticket \in CaseRows, NEW to,
         ticket.status = cases[c].status, ticket.money = cases[c].money,
         moveCase(c, ticket, to), to = "resolution_pending" => requireCaseHold(c),
         UNCHANGED <<holdLedger, answers>>
  PROVE  HoldInv'
  <1> DEFINE moved == [ticket EXCEPT !.status = to]
  <1>1. to \in CaseStatuses /\ cases[c].status \notin {"none", "closed"}
    BY CaseTransitions DEF moveCase, CaseRows
  <1>2. moved \in CaseRows /\ moved.status = to /\ moved.money = cases[c].money
    BY <1>1 DEF CaseRows
  <1>3. cases' = [cases EXCEPT ![c] = moved]
    BY DEF moveCase, saveCaseStep
  <1> HIDE DEF moved
  <1>4. caseHold' = caseHold \/ (to = "closed" /\ caseHold[c] \in {"preparing", "active", "needs_review"}
                                  /\ caseHold' = [caseHold EXCEPT ![c] = "releasing"])
    BY DEF moveCase, releaseCaseHoldOnClose, SetStatus, Open, HoldInv
  <1>5. caseHold' \in [CaseIds -> SourceHoldStates] /\ \A d \in CaseIds \ {c} : caseHold'[d] = caseHold[d]
    BY <1>4 DEF HoldInv, SourceHoldStates
  <1>6. HoldAgrees(to, moved.money, caseHold'[c], holdLedger[c])
    <2>1. HoldAgrees(cases[c].status, cases[c].money, caseHold[c], holdLedger[c])
      BY DEF HoldInv, HoldsAgree
    <2>2. to = "resolution_pending" /\ cases[c].money => caseHold[c] \in {"active", "needs_review"}
      BY <2>1, <1>1 DEF requireCaseHold, HoldAgrees, HoldInv, SourceHoldStates
    <2>. QED BY <2>1, <2>2, <1>1, <1>2, <1>4 DEF HoldAgrees, HoldInv
  <1>7. HoldsAgree'
    BY <1>2, <1>3, <1>5, <1>6 DEF HoldInv, HoldsAgree
  <1>. QED BY <1>2, <1>3, <1>5, <1>7 DEF HoldInv, AnswersAreRecorded

(* A case that opens about money gets its hold, still to be acquired.      *)
LEMMA OpenKeepsHoldInv ==
  ASSUME HoldInv, NEW c \in CaseIds, NEW money \in BOOLEAN, OpenCase(c, money),
         UNCHANGED <<holdLedger, answers>>
  PROVE  HoldInv'
  <1> DEFINE opened == [NoCase EXCEPT !.status = "open", !.money = money]
  <1>1. opened \in CaseRows /\ opened.status = "open"
    BY DEF CaseRows, CaseStatuses, NoCase
  <1>2. cases' = [cases EXCEPT ![c] = opened] /\ cases[c].status = "none"
    BY DEF OpenCase
  <1> HIDE DEF opened
  <1>3. caseHold' = caseHold \/ (caseHold[c] = "none" /\ caseHold' = [caseHold EXCEPT ![c] = "preparing"])
    BY DEF OpenCase, prepareCaseHold, Prepare
  <1>. QED BY <1>1, <1>2, <1>3 DEF HoldInv, HoldsAgree, HoldAgrees, AnswersAreRecorded, SourceHoldStates

(* An operation's outcome takes the cases out of waiting, and nothing else. *)
LEMMA SyncKeepsHoldInv ==
  ASSUME HoldInv, NEW kind, NEW ref, NEW succeeded \in BOOLEAN,
         cases' = syncSupportResolution(kind, ref, succeeded),
         UNCHANGED <<caseHold, holdLedger, answers>>
  PROVE  HoldInv'
  <1>1. ASSUME NEW c \in CaseIds
        PROVE  /\ cases'[c] \in CaseRows /\ cases'[c].money = cases[c].money
               /\ \/ cases'[c].status = cases[c].status
                  \/ cases[c].status = "resolution_pending" /\ cases'[c].status \in {"resolved", "in_progress"}
    <2> DEFINE paid == [cases[c] EXCEPT !.status = "resolved"]
               back == [cases[c] EXCEPT !.status = "in_progress", !.kind = "none", !.ref = 0]
    <2>1. cases[c] \in CaseRows
      BY DEF HoldInv
    <2>2. /\ paid \in CaseRows /\ paid.money = cases[c].money /\ paid.status = "resolved"
          /\ back \in CaseRows /\ back.money = cases[c].money /\ back.status = "in_progress"
      BY <2>1 DEF CaseRows, CaseStatuses
    <2>3. cases'[c] = cases[c] \/ (cases[c].status = "resolution_pending" /\ cases'[c] \in {paid, back})
      BY DEF syncSupportResolution
    <2> HIDE DEF paid, back
    <2>. QED BY <2>1, <2>2, <2>3
  <1>2. cases' \in [CaseIds -> CaseRows]
    BY <1>1 DEF syncSupportResolution
  <1>. QED BY <1>1, <1>2 DEF HoldInv, HoldsAgree, HoldAgrees, AnswersAreRecorded

(* Only the hold of an open case is prepared or sent again; the sweep moves *)
(* no case.                                                                *)
LEMMA EnsureKeepsHoldInv ==
  ASSUME HoldInv, NEW c \in CaseIds, EnsureSupportHolds(c)
  PROVE  HoldInv'
  <1>1. UNCHANGED <<cases, holdLedger, answers>>
    BY DEF EnsureSupportHolds, CaseStep
  <1>2. \/ caseHold[c] = "none" /\ caseHold' = [caseHold EXCEPT ![c] = "preparing"]
        \/ cases[c].status = "closed" /\ caseHold[c] \in {"preparing", "active", "needs_review"}
           /\ caseHold' = [caseHold EXCEPT ![c] = "releasing"]
    BY DEF EnsureSupportHolds, prepareCaseHold, Prepare, releaseCaseHoldOnClose, SetStatus, Open
  <1>. QED BY <1>1, <1>2 DEF HoldInv, HoldsAgree, HoldAgrees, AnswersAreRecorded, SourceHoldStates

LEMMA ResolveKeepsHoldInv ==
  ASSUME HoldInv, NEW c \in CaseIds, NEW kind \in {"no_action", "refund", "return"}, NEW ref \in Nat,
         ResolveSupportCase(c, kind, ref)
  PROVE  HoldInv'
  <1> DEFINE ticket == [cases[c] EXCEPT !.kind = kind, !.ref = ref]
  <1>1. cases[c] \in CaseRows
    BY DEF HoldInv
  <1>2. ticket \in CaseRows /\ ticket.status = cases[c].status /\ ticket.money = cases[c].money
    BY <1>1 DEF CaseRows
  <1>3. /\ UNCHANGED <<holdLedger, answers>>
        /\ \/ linkedOutcome(kind, ref) = "pending" /\ moveCase(c, ticket, "resolution_pending")
           \/ moveCase(c, ticket, "resolved")
        /\ kind # "no_action" => requireCaseHold(c)
    BY DEF ResolveSupportCase, CaseStep
  <1>4. linkedOutcome(kind, ref) = "pending" => kind # "no_action"
    BY DEF linkedOutcome
  <1> HIDE DEF ticket
  <1>5. CASE linkedOutcome(kind, ref) = "pending" /\ moveCase(c, ticket, "resolution_pending")
    BY <1>2, <1>3, <1>4, <1>5, MoveKeepsHoldInv
  <1>6. CASE moveCase(c, ticket, "resolved")
    BY <1>2, <1>3, <1>6, MoveKeepsHoldInv
  <1>. QED BY <1>3, <1>5, <1>6

LEMMA CreateRefundKeepsHoldInv ==
  ASSUME HoldInv, Len(refunds) \in Nat, NEW c \in CaseIds, NEW amount, CreateCaseRefund(c, amount)
  PROVE  HoldInv'
  <1> DEFINE ref == Len(refunds) + 1
             linked == [cases[c] EXCEPT !.kind = "refund", !.ref = ref]
             moved == [linked EXCEPT !.status = "resolution_pending"]
  <1>1. cases[c] \in CaseRows
    BY DEF HoldInv
  <1>2. /\ Working(c) /\ cases[c].money /\ requireCaseHold(c)
        /\ cases' = [cases EXCEPT ![c] = moved]
        /\ UNCHANGED <<caseHold, holdLedger, answers>>
    BY DEF CreateCaseRefund, saveCaseStep
  <1>0. ref \in Nat
    OBVIOUS
  <1> HIDE DEF ref
  <1>3. linked \in CaseRows /\ linked.money = cases[c].money
    BY <1>1, <1>0 DEF CaseRows
  <1> HIDE DEF linked
  <1>4. moved \in CaseRows /\ moved.money = cases[c].money /\ moved.status = "resolution_pending"
    BY <1>3 DEF CaseRows, CaseStatuses
  <1> HIDE DEF moved
  <1>5. HoldAgrees(moved.status, moved.money, caseHold[c], holdLedger[c])
    BY <1>2, <1>4 DEF HoldInv, HoldsAgree, HoldAgrees, Working, requireCaseHold, SourceHoldStates
  <1>. QED BY <1>2, <1>4, <1>5 DEF HoldInv, HoldsAgree, AnswersAreRecorded

(* Requests, answers and the release between Order and the ledger.         *)
LEMMA LedgerKeepsHoldInv ==
  ASSUME HoldInv, NEW c \in CaseIds,
         \/ AcquireSent(c) \/ AcquireArrives(c) \/ releaseCaseHold(c)
         \/ \E to \in {"active", "needs_review", "released"} : AcquireRecorded(c, to)
  PROVE  HoldInv'
  <1> USE DEF HoldInv, HoldsAgree, HoldAgrees, AnswersAreRecorded
  <1>1. CASE AcquireSent(c)
    BY <1>1 DEF AcquireSent
  <1>2. CASE AcquireArrives(c)
    <2>1. PICK record \in Acquire(holdLedger[c]) :
            /\ holdLedger' = [holdLedger EXCEPT ![c] = record]
            /\ answers' \in {answers, answers \cup {<<c, HoldAnswer(record)>>}}
      BY <1>2 DEF AcquireArrives
    <2>2. /\ record \in {"active", "claimed", "released"}
          /\ holdLedger[c] # "none" => record = holdLedger[c]
          /\ holdLedger[c] = "none" => record # "released"
      BY <2>1 DEF Acquire, LedgerStates
    <2>3. HoldAnswer(record) = "released" => record = "released"
      BY <2>2 DEF HoldAnswer
    <2>4. \A d \in CaseIds, to \in {"active", "needs_review", "released"} :
            <<d, to>> \in answers' => <<d, to>> \in answers \/ (d = c /\ to = HoldAnswer(record))
      BY <2>1
    <2>5. /\ UNCHANGED <<cases, caseHold>>
          /\ holdLedger' \in [CaseIds -> LedgerStates]
          /\ holdLedger'[c] = record /\ \A d \in CaseIds \ {c} : holdLedger'[d] = holdLedger[d]
      BY <1>2, <2>1, <2>2 DEF AcquireArrives, LedgerStates
    <2>6. HoldsAgree'
      BY <2>2, <2>5
    <2>7. AnswersAreRecorded'
      BY <2>2, <2>3, <2>4, <2>5
    <2>. QED BY <2>5, <2>6, <2>7
  <1>3. CASE releaseCaseHold(c)
    <2>1. UNCHANGED <<cases, answers>>
      BY <1>3 DEF releaseCaseHold
    <2>2. \/ UNCHANGED <<caseHold, holdLedger>>
          \/ /\ caseHold[c] = "releasing" /\ holdLedger' = [holdLedger EXCEPT ![c] = "released"]
             /\ caseHold' = caseHold \/ caseHold' = [caseHold EXCEPT ![c] = "released"]
      BY <1>3 DEF releaseCaseHold, SetStatus
    <2>. QED BY <2>1, <2>2 DEF SourceHoldStates, LedgerStates
  <1>4. ASSUME NEW to \in {"active", "needs_review", "released"}, AcquireRecorded(c, to)
        PROVE  HoldInv'
    <2>1. /\ <<c, to>> \in answers /\ answers' \subseteq answers /\ UNCHANGED <<cases, holdLedger>>
          /\ caseHold' = caseHold \/ (caseHold[c] = "preparing" /\ caseHold' = [caseHold EXCEPT ![c] = to])
      BY <1>4 DEF AcquireRecorded, SetStatus
    <2>2. caseHold[c] = "preparing" => to # "released" /\ holdLedger[c] \in {"active", "claimed"}
      BY <2>1 DEF LedgerStates
    <2>. QED BY <2>1, <2>2 DEF SourceHoldStates
  <1>. QED BY <1>1, <1>2, <1>3, <1>4

-----------------------------------------------------------------------------
(***************************************************************************)
(* Refunds that resolve cases.                                             *)
(***************************************************************************)
RefundStatuses == {"requested", "submitted", "succeeded", "failed", "rejected"}
RefundRows == [vo : {caseOrder}, amount : {1}, reason : {"dispute"}, status : RefundStatuses]

\* A case bound to a refund names one, and stands where the refund does.
FollowsRefund(ticket) ==
    ticket.kind = "refund" =>
        /\ ticket.ref \in RefundIds
        /\ ticket.status = "resolved" => refunds[ticket.ref].status = "succeeded"
        /\ ticket.status = "resolution_pending" => refunds[ticket.ref].status \in {"requested", "submitted"}

SupportInv ==
    /\ HoldInv
    /\ refunds \in Seq(RefundRows)
    /\ \A c \in CaseIds : FollowsRefund(cases[c])

\* The refunds asked so far keep their place and what they stand at.
RefundsStay ==
    /\ refunds' \in Seq(RefundRows)
    /\ RefundIds \subseteq RefundIds'
    /\ \A i \in RefundIds : \/ refunds'[i].status = refunds[i].status
                            \/ refunds[i].status = "requested" /\ refunds'[i].status = "submitted"

LEMMA RefundStep ==
  ASSUME refunds \in Seq(RefundRows), NEW i \in RefundIds, NEW to \in RefundStatuses,
         refunds' = [refunds EXCEPT ![i].status = to]
  PROVE  /\ refunds' \in Seq(RefundRows) /\ RefundIds' = RefundIds
         /\ \A j \in RefundIds : refunds'[j].status = IF j = i THEN to ELSE refunds[j].status
  <1> DEFINE old == refunds[i]
             rec == [old EXCEPT !.status = to]
  <1>1. refunds' = [refunds EXCEPT ![i] = rec]
    OBVIOUS
  <1>2. old \in RefundRows
    BY DEF RefundIds
  <1> HIDE DEF old
  <1>3. rec \in RefundRows /\ rec.status = to
    BY <1>2 DEF RefundRows
  <1> HIDE DEF rec
  <1>. QED BY <1>1, <1>3, ExceptSeq DEF RefundIds

(* A refund that is requested or submitted leaves every case where it is.  *)
LEMMA StayKeepsFollowing ==
  ASSUME SupportInv, RefundsStay, NEW ticket, FollowsRefund(ticket)
  PROVE  FollowsRefund(ticket)'
  BY DEF RefundsStay, FollowsRefund

(* A step of one case: its new row has to follow its refund, the others    *)
(* follow theirs as before.                                                *)
LEMMA OneCaseMoves ==
  ASSUME SupportInv, HoldInv', RefundsStay, NEW c \in CaseIds, NEW moved,
         cases' = [cases EXCEPT ![c] = moved], FollowsRefund(moved)'
  PROVE  SupportInv'
  <1>1. ASSUME NEW d \in CaseIds PROVE FollowsRefund(cases[d])'
    <2>1. CASE d = c
      BY <2>1 DEF SupportInv, HoldInv, FollowsRefund
    <2>2. CASE d # c
      BY <2>2 DEF SupportInv, HoldInv, FollowsRefund, RefundsStay
    <2>. QED BY <2>1, <2>2
  <1>. QED BY <1>1 DEF SupportInv, RefundsStay, FollowsRefund

(* Handling a case leaves it bound to the refund it named.                 *)
LEMMA HandlingKeepsSupportInv ==
  ASSUME SupportInv, NEW c \in CaseIds, NEW ticket \in CaseRows, NEW to \in {"in_progress", "waiting_buyer", "waiting_vendor", "closed"},
         ticket.status = cases[c].status, ticket.money = cases[c].money,
         ticket.kind = "refund" => ticket.kind = cases[c].kind /\ ticket.ref = cases[c].ref,
         moveCase(c, ticket, to), UNCHANGED <<holdLedger, answers, refunds>>
  PROVE  SupportInv'
  <1> DEFINE moved == [ticket EXCEPT !.status = to]
  <1>1. HoldInv'
    BY MoveKeepsHoldInv DEF SupportInv
  <1>2. RefundsStay
    BY DEF RefundsStay, SupportInv, RefundIds
  <1>3. moved.kind = ticket.kind /\ moved.ref = ticket.ref /\ moved.status = to
    BY DEF CaseRows
  <1>4. cases' = [cases EXCEPT ![c] = moved]
    BY DEF moveCase, saveCaseStep
  <1> HIDE DEF moved
  <1>5. FollowsRefund(moved)
    BY <1>3 DEF FollowsRefund, SupportInv
  <1>6. FollowsRefund(moved)'
    BY <1>2, <1>5, StayKeepsFollowing
  <1>. QED BY <1>1, <1>2, <1>4, <1>6, OneCaseMoves

(* A case is bound to a refund only where that refund stands.              *)
LEMMA ResolveKeepsSupportInv ==
  ASSUME SupportInv, NEW c \in CaseIds, NEW kind, NEW ref,
         \/ kind \in {"no_action", "return"} /\ ref = 0
         \/ kind = "refund" /\ ref \in RefundIds,
         ResolveSupportCase(c, kind, ref)
  PROVE  SupportInv'
  <1> DEFINE ticket == [cases[c] EXCEPT !.kind = kind, !.ref = ref]
  <1>0. kind \in {"no_action", "refund", "return"} /\ ref \in Nat
    BY DEF RefundIds, SupportInv
  <1>1. HoldInv'
    BY <1>0, ResolveKeepsHoldInv DEF SupportInv
  <1>2. RefundsStay
    BY DEF RefundsStay, SupportInv, RefundIds, ResolveSupportCase, CaseStep, moneyVars
  <1>3. cases[c] \in CaseRows
    BY DEF SupportInv, HoldInv
  <1>4. ticket \in CaseRows /\ ticket.kind = kind /\ ticket.ref = ref
    BY <1>0, <1>3 DEF CaseRows
  <1>5. PICK to \in {"resolution_pending", "resolved"} :
          /\ cases' = [cases EXCEPT ![c] = [ticket EXCEPT !.status = to]]
          /\ linkedOutcome(kind, ref) = IF to = "resolved" THEN "done" ELSE "pending"
    BY DEF ResolveSupportCase, moveCase, saveCaseStep
  <1> HIDE DEF ticket
  <1>6. PICK moved : moved = [ticket EXCEPT !.status = to]
    OBVIOUS
  <1>7. moved.kind = kind /\ moved.ref = ref /\ moved.status = to
    BY <1>4, <1>6 DEF CaseRows
  <1>8. kind = "refund" =>
          IF to = "resolved" THEN refunds[ref].status = "succeeded" ELSE refunds[ref].status \in {"requested", "submitted"}
    BY <1>5 DEF linkedOutcome
  <1>9. FollowsRefund(moved)
    BY <1>7, <1>8 DEF FollowsRefund
  <1>10. FollowsRefund(moved)'
    BY <1>2, <1>9, StayKeepsFollowing
  <1>. QED BY <1>1, <1>2, <1>5, <1>6, <1>10, OneCaseMoves

LEMMA CreateRefundKeepsSupportInv ==
  ASSUME SupportInv, NEW c \in CaseIds, CreateCaseRefund(c, 1)
  PROVE  SupportInv'
  <1> DEFINE ref == Len(refunds) + 1
             linked == [cases[c] EXCEPT !.kind = "refund", !.ref = ref]
             asked == [vo |-> caseOrder, amount |-> 1, reason |-> "dispute", status |-> "requested"]
  <1>1. HoldInv'
    BY CreateRefundKeepsHoldInv DEF SupportInv
  <1>2. PICK moved : moved = [linked EXCEPT !.status = "resolution_pending"]
    OBVIOUS
  <1>3. cases' = [cases EXCEPT ![c] = moved] /\ refunds' = Append(refunds, asked)
    BY <1>2 DEF CreateCaseRefund, saveCaseStep, AdminRequestRefund, createRefund
  <1>4. asked \in RefundRows /\ asked.status = "requested"
    BY DEF RefundRows, RefundStatuses
  <1> HIDE DEF asked
  <1>5. /\ refunds' \in Seq(RefundRows) /\ RefundIds' = 1 .. ref /\ refunds'[ref] = asked
        /\ \A i \in RefundIds : refunds'[i] = refunds[i]
    BY <1>3, <1>4, AppendProperties DEF SupportInv, RefundIds
  <1>6. ref \in Nat \ {0} /\ ref \in RefundIds' /\ RefundIds \subseteq RefundIds'
    BY <1>5 DEF SupportInv, RefundIds
  <1> HIDE DEF ref
  <1>7. cases[c] \in CaseRows
    BY DEF SupportInv, HoldInv
  <1>8. moved.kind = "refund" /\ moved.ref = ref /\ moved.status = "resolution_pending"
    BY <1>2, <1>6, <1>7 DEF CaseRows
  <1> HIDE DEF linked
  <1>9. RefundsStay
    BY <1>5, <1>6 DEF RefundsStay
  <1>10. FollowsRefund(moved)'
    BY <1>4, <1>5, <1>6, <1>8 DEF FollowsRefund
  <1>. QED BY <1>1, <1>3, <1>9, <1>10, OneCaseMoves

(* A refund's outcome reaches it and the cases that wait for it together.  *)
LEMMA OutcomeKeepsSupportInv ==
  ASSUME SupportInv, NEW i \in RefundIds, CaseRefundAnswered(i)
  PROVE  SupportInv'
  <1>1. UNCHANGED <<caseHold, holdLedger, answers>>
    BY DEF CaseRefundAnswered
  <1>2. CASE refunds' = refunds
    <2>1. cases' = cases
      BY <1>2 DEF CaseRefundAnswered
    <2>. QED BY <1>1, <1>2, <2>1 DEF SupportInv, HoldInv, HoldsAgree, AnswersAreRecorded, FollowsRefund, RefundIds
  <1>3. ASSUME NEW outcome \in {"succeeded", "failed", "rejected"},
               CanApplyOutcome(refunds[i].status, outcome), refunds' = [refunds EXCEPT ![i].status = outcome]
        PROVE  SupportInv'
    <2>1. /\ refunds' \in Seq(RefundRows) /\ RefundIds' = RefundIds
          /\ \A j \in RefundIds : refunds'[j].status = IF j = i THEN outcome ELSE refunds[j].status
      <3>1. outcome \in RefundStatuses /\ refunds \in Seq(RefundRows)
        BY DEF RefundStatuses, SupportInv
      <3>. QED BY <1>3, <3>1, RefundStep
    <2>2. refunds[i].status \in {"requested", "submitted"} /\ refunds'[i].status = outcome
      BY <1>3, <2>1 DEF CanApplyOutcome
    <2>3. cases' = syncSupportResolution("refund", i, outcome = "succeeded")
      BY <2>2 DEF CaseRefundAnswered
    <2>4. HoldInv'
      BY <1>1, <2>3, SyncKeepsHoldInv DEF SupportInv
    <2>5. ASSUME NEW d \in CaseIds PROVE FollowsRefund(cases[d])'
      <3> DEFINE paid == [cases[d] EXCEPT !.status = "resolved"]
                 back == [cases[d] EXCEPT !.status = "in_progress", !.kind = "none", !.ref = 0]
      <3>1. cases[d] \in CaseRows /\ FollowsRefund(cases[d])
        BY DEF SupportInv, HoldInv
      <3>2. CASE cases[d].status = "resolution_pending" /\ cases[d].kind = "refund" /\ cases[d].ref = i
        <4>1. cases'[d] = IF outcome = "succeeded" THEN paid ELSE back
          BY <2>3, <3>2 DEF syncSupportResolution
        <4>2. paid.status = "resolved" /\ paid.ref = i /\ back.kind = "none"
          BY <3>1, <3>2 DEF CaseRows
        <4>. QED BY <2>1, <2>2, <4>1, <4>2 DEF FollowsRefund
      <3>3. CASE ~(cases[d].status = "resolution_pending" /\ cases[d].kind = "refund" /\ cases[d].ref = i)
        <4>1. cases'[d] = cases[d]
          BY <2>3, <3>3 DEF syncSupportResolution
        <4>. QED BY <2>1, <2>2, <3>1, <3>3, <4>1 DEF FollowsRefund
      <3>. QED BY <3>2, <3>3
    <2>. QED BY <2>1, <2>4, <2>5 DEF SupportInv
  <1>4. ASSUME NEW outcome, NEW es, ApplyRefundOutcome(i, outcome, es)
        PROVE  /\ outcome \in {"succeeded", "failed", "rejected"} /\ CanApplyOutcome(refunds[i].status, outcome)
               /\ refunds' = [refunds EXCEPT ![i].status = outcome]
    BY <1>4 DEF ApplyRefundOutcome, CanApplyOutcome
  <1>5. CASE RefundOutcomeArrives(i)
    BY <1>3, <1>4, <1>5 DEF RefundOutcomeArrives
  <1>6. CASE RejectRefund(i)
    BY <1>2, <1>3, <1>4, <1>6 DEF RejectRefund
  <1>. QED BY <1>5, <1>6 DEF CaseRefundAnswered

(* A refund resolves no case but its own, and a return none of a refund's. *)
LEMMA ReturnKeepsSupportInv ==
  ASSUME SupportInv, NEW to, ReturnMoves(to)
  PROVE  SupportInv'
  <1>1. UNCHANGED <<caseHold, holdLedger, answers, refunds>>
    BY DEF ReturnMoves, lifecycleVars
  <1>2. CASE cases' = cases
    BY <1>1, <1>2 DEF SupportInv, HoldInv, HoldsAgree, AnswersAreRecorded, FollowsRefund, RefundIds
  <1>3. CASE cases' = syncSupportResolution("return", 0, to = "refunded")
    <2>1. HoldInv'
      BY <1>1, <1>3, SyncKeepsHoldInv DEF SupportInv
    <2>2. ASSUME NEW d \in CaseIds PROVE FollowsRefund(cases[d])'
      <3>1. cases[d] \in CaseRows /\ FollowsRefund(cases[d])
        BY DEF SupportInv, HoldInv
      <3>2. cases'[d] = cases[d] \/ cases'[d].kind # "refund"
        BY <1>3, <3>1 DEF syncSupportResolution, CaseRows
      <3>. QED BY <1>1, <3>1, <3>2 DEF FollowsRefund, RefundIds
    <2>. QED BY <1>1, <2>1, <2>2 DEF SupportInv
  <1>. QED BY <1>2, <1>3 DEF ReturnMoves

LEMMA InitHasSupportInv == SupportInit => SupportInv
  <1>1. ASSUME SupportInit, NEW c \in CaseIds PROVE cases[c].kind # "refund"
    <2>1. NoCase.kind # "refund"
      BY DEF NoCase
    <2>2. PICK first \in {NoCase} \cup LegacyCases : cases = [d \in CaseIds |-> IF d = 1 THEN first ELSE NoCase]
      BY <1>1 DEF SupportInit
    <2>. QED BY <2>1, <2>2, FirstCaseWaitsForNone
  <1>2. SupportInit => refunds \in Seq(RefundRows)
    BY DEF SupportInit
  <1>. QED BY <1>1, <1>2, InitHasHoldInv DEF SupportInv, FollowsRefund

(* Opening, by a case or by an intake, binds to no refund.                 *)
LEMMA OpenKeepsSupportInv ==
  ASSUME SupportInv, NEW c \in CaseIds, NEW money \in BOOLEAN, OpenCase(c, money),
         UNCHANGED <<holdLedger, answers, refunds>>
  PROVE  SupportInv'
  <1>1. HoldInv'
    BY OpenKeepsHoldInv DEF SupportInv
  <1>2. PICK opened : opened = [NoCase EXCEPT !.status = "open", !.money = money]
    OBVIOUS
  <1>3. cases' = [cases EXCEPT ![c] = opened]
    BY <1>2 DEF OpenCase
  <1>4. opened.kind = "none"
    BY <1>2 DEF NoCase
  <1>5. RefundsStay
    BY DEF RefundsStay, SupportInv, RefundIds
  <1>6. FollowsRefund(opened)'
    BY <1>4 DEF FollowsRefund
  <1>. QED BY <1>1, <1>3, <1>5, <1>6, OneCaseMoves

(* Requests move between Order and Payment without a case moving.          *)
LEMMA RefundsKeepSupportInv ==
  ASSUME SupportInv, NEW i \in RefundIds, SubmitRefund(i) \/ RecordSubmitted(i) \/ PaymentDecides(i),
         UNCHANGED caseVars
  PROVE  SupportInv'
  <1>1. UNCHANGED <<cases, caseHold, holdLedger, answers>>
    BY DEF caseVars
  <1>2. HoldInv'
    BY <1>1 DEF SupportInv, HoldInv, HoldsAgree, AnswersAreRecorded
  <1>3. \/ refunds' = refunds
        \/ refunds[i].status = "requested" /\ refunds' = [refunds EXCEPT ![i].status = "submitted"]
    BY DEF SubmitRefund, RecordSubmitted, PaymentDecides
  <1>4. RefundsStay
    BY <1>3, RefundStep DEF SupportInv, RefundsStay, RefundIds, RefundStatuses
  <1>5. ASSUME NEW d \in CaseIds PROVE FollowsRefund(cases[d])'
    BY <1>1, <1>4 DEF SupportInv, RefundsStay, FollowsRefund
  <1>. QED BY <1>2, <1>4, <1>5 DEF SupportInv, RefundsStay

LEMMA NextKeepsSupportInv == SupportInv /\ [SupportStep]_supportVars => SupportInv'
  <1> SUFFICES ASSUME SupportInv, [SupportStep]_supportVars PROVE SupportInv'
    OBVIOUS
  <1>1. ASSUME UNCHANGED <<cases, caseHold, holdLedger, answers, refunds>>
        PROVE  SupportInv'
    BY <1>1 DEF SupportInv, HoldInv, HoldsAgree, AnswersAreRecorded, FollowsRefund, RefundIds
  <1>2. ASSUME NEW c \in CaseIds
        PROVE  cases[c] \in CaseRows
    BY DEF SupportInv, HoldInv
  <1>3. ASSUME NEW c \in CaseIds, NEW money \in BOOLEAN, CreateSupportCase(c, money)
        PROVE  SupportInv'
    BY <1>3, OpenKeepsSupportInv DEF CreateSupportCase, CaseStep, moneyVars
  <1>4. ASSUME NEW c \in CaseIds, EnsureSupportHolds(c)
        PROVE  SupportInv'
    <2>1. HoldInv' /\ UNCHANGED <<cases, refunds>>
      BY <1>4, EnsureKeepsHoldInv DEF SupportInv, EnsureSupportHolds, CaseStep, moneyVars
    <2>. QED BY <2>1 DEF SupportInv, FollowsRefund, RefundIds
  <1>5. ASSUME NEW c \in CaseIds, NEW to \in {"in_progress", "waiting_buyer", "waiting_vendor", "closed"},
               moveCase(c, cases[c], to), CaseStep
        PROVE  SupportInv'
    BY <1>2, <1>5, HandlingKeepsSupportInv DEF CaseStep, moneyVars
  <1>6. ASSUME NEW c \in CaseIds,
               \/ AssignSupportCase(c) \/ PostSupportMessage(c) \/ CloseSupportCase(c)
               \/ \E to \in {"waiting_vendor", "waiting_buyer"} : ChangeSupportCaseStatus(c, to)
        PROVE  SupportInv'
    BY <1>5, <1>6 DEF AssignSupportCase, PostSupportMessage, CloseSupportCase, ChangeSupportCaseStatus
  <1>7. ASSUME NEW c \in CaseIds, ReopenSupportCase(c)
        PROVE  SupportInv'
    <2> DEFINE ticket == [cases[c] EXCEPT !.kind = "none", !.ref = 0]
    <2>1. /\ ticket \in CaseRows /\ ticket.kind = "none"
          /\ ticket.status = cases[c].status /\ ticket.money = cases[c].money
      BY <1>2 DEF CaseRows
    <2>2. moveCase(c, ticket, "in_progress") /\ UNCHANGED <<holdLedger, answers, refunds>>
      BY <1>7 DEF ReopenSupportCase, CaseStep, moneyVars
    <2> HIDE DEF ticket
    <2>. QED BY <2>1, <2>2, HandlingKeepsSupportInv
  <1>8. ASSUME NEW c \in CaseIds,
               \/ ResolveSupportCase(c, "no_action", 0) \/ ResolveSupportCase(c, "return", 0)
               \/ \E i \in RefundIds : ResolveSupportCase(c, "refund", i)
        PROVE  SupportInv'
    BY <1>8, ResolveKeepsSupportInv
  <1>9. ASSUME NEW c \in CaseIds,
               \/ AcquireSent(c) \/ AcquireArrives(c) \/ releaseCaseHold(c)
               \/ \E to \in {"active", "needs_review", "released"} : AcquireRecorded(c, to)
        PROVE  SupportInv'
    <2>1. HoldInv'
      BY <1>9, LedgerKeepsHoldInv DEF SupportInv
    <2>2. UNCHANGED <<cases, refunds>>
      BY <1>9 DEF AcquireSent, AcquireArrives, releaseCaseHold, AcquireRecorded, lifecycleVars, moneyVars
    <2>. QED BY <2>1, <2>2 DEF SupportInv, FollowsRefund, RefundIds
  <1>10. ASSUME NEW i \in IntakeIds, CheckIntakes(i) \/ CreateSupportIntake(i) \/ CloseSupportIntake(i)
         PROVE  SupportInv'
    BY <1>1, <1>10 DEF CheckIntakes, CreateSupportIntake, CloseSupportIntake, lifecycleVars
  <1>11. ASSUME NEW i \in IntakeIds, NEW money \in BOOLEAN, LinkSupportIntake(i, money)
         PROVE  SupportInv'
    <2>1. UNCHANGED <<holdLedger, answers, refunds>>
      BY <1>11 DEF LinkSupportIntake, moneyVars
    <2>2. UNCHANGED <<cases, caseHold>> \/ \E c \in CaseIds : OpenCase(c, money)
      BY <1>11 DEF LinkSupportIntake
    <2>. QED BY <1>1, <2>1, <2>2, OpenKeepsSupportInv
  <1>12. CASE UNCHANGED supportVars
    BY <1>1, <1>12 DEF supportVars, caseVars, lifecycleVars
  <1>13. CASE \E i \in RefundIds : (SubmitRefund(i) \/ RecordSubmitted(i) \/ PaymentDecides(i)) /\ UNCHANGED caseVars
    BY <1>13, RefundsKeepSupportInv
  <1>14. CASE SupportStep
    BY <1>3, <1>4, <1>6, <1>7, <1>8, <1>9, <1>10, <1>11, <1>13, <1>14,
       CreateRefundKeepsSupportInv, ReturnKeepsSupportInv, OutcomeKeepsSupportInv DEF SupportStep
  <1>. QED BY <1>12, <1>14

(* The case, its hold and the ledger agree in every reachable state, with  *)
(* any number of cases, intakes and refunds.                               *)
THEOREM SupportInvariant == SupportSpec => []SupportInv
  BY InitHasSupportInv, NextKeepsSupportInv, PTL DEF SupportSpec

(* While a case about money waits for its refund or return, Payment holds  *)
(* the payout, whatever calls were lost, repeated or late.                 *)
THEOREM DisputedMoneyAlwaysHeld == SupportSpec => []DisputedMoneyIsHeld
  <1>1. SupportInv => DisputedMoneyIsHeld
    BY DEF SupportInv, HoldInv, HoldsAgree, HoldAgrees, DisputedMoneyIsHeld
  <1>. QED BY <1>1, SupportInvariant, PTL

(* A hold counted as released belongs to a closed case and is gone from    *)
(* Payment's ledger.                                                       *)
THEOREM ReleasedHoldAlwaysGone == SupportSpec => []ReleasedHoldStaysReleased
  <1>1. SupportInv => ReleasedHoldStaysReleased
    BY DEF SupportInv, HoldInv, HoldsAgree, HoldAgrees, ReleasedHoldStaysReleased
  <1>. QED BY <1>1, SupportInvariant, PTL

(* A case resolved by a refund names one that was paid, and waits for none *)
(* that has ended.                                                         *)
THEOREM CasesAlwaysFollowRefunds == SupportSpec => []CaseFollowsRefund
  <1>1. SupportInv => CaseFollowsRefund
    BY DEF SupportInv, FollowsRefund, CaseFollowsRefund
  <1>. QED BY <1>1, SupportInvariant, PTL

-----------------------------------------------------------------------------
(***************************************************************************)
(* Evidence files.                                                         *)
(***************************************************************************)
FileStates == {"none", "uploaded", "attached", "deleted"}
FileRows == [state : FileStates, owner : Owners \cup {"none"}, of : {"none", "message", "receipt"}, at : Nat]

\* A file that was never attached, or whose retention has ended.
MayGo(f) ==
    \/ row[f].of = "none" /\ row[f].at + Grace < fileTime
    \/ row[f].of = "message" /\ case.status = "closed" /\ case.at + Retention < fileTime
    \/ row[f].of = "receipt" /\ row[f].at + ReceiptRetention < fileTime

\* What a row says of its object, and of what happened to it.
RowIsTrue(f) ==
    /\ row[f].state \in {"uploaded", "attached"} => f \in object
    /\ row[f].state = "uploaded" => row[f].of = "none"
    /\ row[f].state = "deleted" => MayGo(f)
    /\ putting[f] # "none" => f \in object /\ row[f].state = "none"

\* What a worker listed could go then, and can still go unless it changed.
CleanerIsLate(w) ==
    /\ \A seen \in cleaner[w].listed :
          /\ seen.file \in Files /\ row[seen.file].state # "none"
          /\ seen.state = "attached" => row[seen.file].state \in {"attached", "deleted"}
          /\ row[seen.file].state = seen.state => MayGo(seen.file)
    /\ cleaner[w].deleting # NoFile => cleaner[w].deleting \in Files /\ row[cleaner[w].deleting].state = "deleted"

FilesInv ==
    /\ fileTime \in Nat
    /\ row \in [Files -> FileRows]
    /\ putting \in [Files -> Owners \cup {"none"}]
    /\ case \in [status : {"open", "closed"}, at : Nat]
    /\ cleaner \in [Cleaners -> [listed : SUBSET [file : Files, state : FileStates], deleting : Files \cup {NoFile}]]
    /\ \A f \in Files : RowIsTrue(f)
    /\ \A w \in Cleaners : CleanerIsLate(w)

LEMMA InitHasFilesInv == AttachmentsInit => FilesInv
  <1> SUFFICES ASSUME AttachmentsInit PROVE FilesInv
    OBVIOUS
  <1>1. NoRow \in FileRows /\ NoRow.state = "none"
    BY DEF NoRow, FileRows, FileStates
  <1>2. NothingListed \in [listed : SUBSET [file : Files, state : FileStates], deleting : Files \cup {NoFile}]
        /\ NothingListed.listed = {} /\ NothingListed.deleting = NoFile
    BY DEF NothingListed
  <1>. QED BY <1>1, <1>2 DEF AttachmentsInit, FilesInv, RowIsTrue, CleanerIsLate

(* Time only brings the end of a retention nearer.                         *)
LEMMA AgeingKeepsFilesInv ==
  ASSUME FilesInv, FilesAge
  PROVE  FilesInv'
  <1>1. fileTime' = fileTime + 1 /\ UNCHANGED <<row, object, putting, case, cleaner>>
    BY DEF FilesAge
  <1>2. \A f \in Files : MayGo(f) => MayGo(f)'
    BY <1>1, AgesAssumption DEF MayGo, FilesInv, FileRows
  <1>. QED BY <1>1, <1>2 DEF FilesInv, RowIsTrue, CleanerIsLate

LEMMA CloseKeepsFilesInv ==
  ASSUME FilesInv, CloseCase
  PROVE  FilesInv'
  <1>1. /\ case.status = "open" /\ case' = [status |-> "closed", at |-> fileTime]
        /\ UNCHANGED <<fileTime, row, object, putting, cleaner>>
    BY DEF CloseCase
  <1>2. \A f \in Files : MayGo(f) => MayGo(f)'
    BY <1>1 DEF MayGo
  <1>. QED BY <1>1, <1>2 DEF FilesInv, RowIsTrue, CleanerIsLate

(* Uploads touch files that have no row yet.                               *)
LEMMA UploadKeepsFilesInv ==
  ASSUME FilesInv, NEW f \in Files, CreateAttachment(f) \/ UploadFails(f) \/ \E o \in Owners : Put(f, o)
  PROVE  FilesInv'
  <1> USE DEF FilesInv
  <1>1. CASE CreateAttachment(f)
    <2> DEFINE rec == [state |-> "uploaded", owner |-> putting[f], of |-> "none", at |-> fileTime]
    <2>1. rec \in FileRows /\ rec.state = "uploaded" /\ rec.of = "none"
      BY DEF FileRows, FileStates
    <2>2. /\ putting[f] # "none" /\ row' = [row EXCEPT ![f] = rec] /\ putting' = [putting EXCEPT ![f] = "none"]
          /\ UNCHANGED <<fileTime, object, case, cleaner>>
      BY <1>1 DEF CreateAttachment
    <2> HIDE DEF rec
    <2>3. row[f].state = "none" /\ f \in object
      BY <2>2 DEF RowIsTrue
    <2>4. /\ row' \in [Files -> FileRows] /\ putting' \in [Files -> Owners \cup {"none"}]
          /\ row'[f] = rec /\ \A g \in Files \ {f} : row'[g] = row[g] /\ putting'[g] = putting[g]
          /\ putting'[f] = "none"
      BY <2>1, <2>2
    <2>5. \A g \in Files \ {f} : MayGo(g) => MayGo(g)'
      BY <2>2, <2>4 DEF MayGo
    <2>6. \A g \in Files : RowIsTrue(g)'
      BY <2>1, <2>2, <2>3, <2>4, <2>5 DEF RowIsTrue
    <2>7. \A w \in Cleaners : CleanerIsLate(w)'
      BY <2>2, <2>3, <2>4, <2>5 DEF CleanerIsLate
    <2>. QED BY <2>2, <2>4, <2>6, <2>7
  <1>2. CASE UploadFails(f)
    <2>1. /\ putting[f] # "none" /\ putting' = [putting EXCEPT ![f] = "none"] /\ object' \in {object, object \ {f}}
          /\ UNCHANGED <<fileTime, row, case, cleaner>>
      BY <1>2 DEF UploadFails
    <2>2. row[f].state = "none"
      BY <2>1 DEF RowIsTrue
    <2>. QED BY <2>1, <2>2 DEF RowIsTrue, CleanerIsLate, MayGo
  <1>3. ASSUME NEW o \in Owners, Put(f, o)
        PROVE  FilesInv'
    <2>1. /\ row[f] = NoRow /\ object' = object \cup {f} /\ putting' = [putting EXCEPT ![f] = o]
          /\ UNCHANGED <<fileTime, row, case, cleaner>>
      BY <1>3 DEF Put
    <2>2. row[f].state = "none"
      BY <2>1 DEF NoRow
    <2>. QED BY <2>1, <2>2 DEF RowIsTrue, CleanerIsLate, MayGo
  <1>. QED BY <1>1, <1>2, <1>3

(* Attaching takes uploads that are still there, and makes what a worker   *)
(* listed of them out of date.                                             *)
LEMMA AttachKeepsFilesInv ==
  ASSUME FilesInv, NEW files \in SUBSET Files, NEW o, NEW of \in {"message", "receipt"}, Attach(files, o, of)
  PROVE  FilesInv'
  <1> USE DEF FilesInv
  <1> DEFINE rec(f) == [row[f] EXCEPT !.state = "attached", !.of = of, !.at = fileTime]
  <1>1. /\ \A f \in files : row[f].state = "uploaded"
        /\ row' = [f \in Files |-> IF f \in files THEN rec(f) ELSE row[f]]
        /\ UNCHANGED <<fileTime, object, putting, case, cleaner>>
    BY DEF Attach, Attachable
  <1>2. \A f \in Files : rec(f) \in FileRows /\ rec(f).state = "attached"
    BY DEF FileRows, FileStates
  <1> HIDE DEF rec
  <1>3. /\ row' \in [Files -> FileRows]
        /\ \A f \in files : row'[f].state = "attached"
        /\ \A f \in Files \ files : row'[f] = row[f] /\ (MayGo(f) => MayGo(f)')
    BY <1>1, <1>2 DEF MayGo
  <1>4. \A f \in Files : RowIsTrue(f)'
    BY <1>1, <1>3 DEF RowIsTrue
  <1>5. \A w \in Cleaners : CleanerIsLate(w)'
    <2> SUFFICES ASSUME NEW w \in Cleaners PROVE CleanerIsLate(w)'
      OBVIOUS
    <2>1. CleanerIsLate(w) /\ cleaner' = cleaner
      BY <1>1
    <2>2. ASSUME NEW seen \in cleaner[w].listed, seen.file \in files
          PROVE  row'[seen.file].state # "none" /\ row'[seen.file].state # seen.state
      BY <1>1, <1>3, <2>1, <2>2 DEF CleanerIsLate
    <2>. QED BY <1>1, <1>3, <2>1, <2>2 DEF CleanerIsLate
  <1>. QED BY <1>1, <1>3, <1>4, <1>5

(* A worker lists what may go, and marks it only as it was listed.         *)
LEMMA CleaningKeepsFilesInv ==
  ASSUME FilesInv, NEW w \in Cleaners,
         \/ List(w) \/ DeleteObject(w) \/ CleanerCrash(w)
         \/ \E seen \in cleaner[w].listed : MarkAttachmentDeleted(w, seen)
  PROVE  FilesInv'
  <1> USE DEF FilesInv
  <1> DEFINE Views == [listed : SUBSET [file : Files, state : FileStates], deleting : Files \cup {NoFile}]
  <1>1. cleaner[w] \in Views /\ CleanerIsLate(w)
    OBVIOUS
  <1>2. CASE List(w)
    <2> DEFINE views == {Seen(f) : f \in Listed}
               rec == [cleaner[w] EXCEPT !.listed = views]
    <2>1. UNCHANGED <<fileTime, row, object, putting, case>> /\ cleaner' = [cleaner EXCEPT ![w] = rec]
      BY <1>2 DEF List
    <2>2. \A f \in Listed : f \in Files /\ row[f].state \in {"uploaded", "attached"} /\ MayGo(f)
      BY DEF Listed, ListOrphanAttachments, ListExpiredAttachments, ExpiredReceiptEvidence, MayGo, RowIsTrue
    <2>3. \A seen \in views : /\ seen \in [file : Files, state : FileStates] /\ seen.file \in Listed
                              /\ seen.state = row[seen.file].state
      BY <2>2 DEF Seen, FileStates
    <2> HIDE DEF views
    <2>4. rec \in Views /\ rec.listed = views /\ rec.deleting = cleaner[w].deleting
      BY <1>1, <2>3
    <2> HIDE DEF rec
    <2>5. CleanerIsLate(w)'
      BY <1>1, <2>1, <2>2, <2>3, <2>4 DEF CleanerIsLate, MayGo
    <2>. QED BY <2>1, <2>4, <2>5 DEF RowIsTrue, CleanerIsLate, MayGo
  <1>3. CASE DeleteObject(w)
    <2> DEFINE gone == cleaner[w].deleting
               rec == [cleaner[w] EXCEPT !.deleting = NoFile]
    <2>1. /\ UNCHANGED <<fileTime, row, putting, case>> /\ cleaner' = [cleaner EXCEPT ![w] = rec]
          /\ gone # NoFile /\ object' \in {object, object \ {gone}}
      BY <1>3 DEF DeleteObject
    <2>2. row[gone].state = "deleted"
      BY <1>1, <2>1 DEF CleanerIsLate
    <2>3. rec \in Views /\ rec.listed = cleaner[w].listed /\ rec.deleting = NoFile
      BY <1>1
    <2> HIDE DEF rec, gone
    <2>4. \A f \in Files : RowIsTrue(f)'
      BY <2>1, <2>2 DEF RowIsTrue, MayGo
    <2>. QED BY <1>1, <2>1, <2>3, <2>4 DEF CleanerIsLate, MayGo
  <1>4. CASE CleanerCrash(w)
    <2>1. /\ UNCHANGED <<fileTime, row, object, putting, case>> /\ cleaner' = [cleaner EXCEPT ![w] = NothingListed]
      BY <1>4 DEF CleanerCrash
    <2>2. NothingListed \in Views /\ NothingListed.listed = {} /\ NothingListed.deleting = NoFile
      BY DEF NothingListed
    <2>. QED BY <2>1, <2>2 DEF RowIsTrue, CleanerIsLate, MayGo
  <1>5. ASSUME NEW seen \in cleaner[w].listed, MarkAttachmentDeleted(w, seen)
        PROVE  FilesInv'
    <2> DEFINE f == seen.file
               gone == IF StillAsListed(seen) THEN f ELSE NoFile
               view == [listed |-> cleaner[w].listed \ {seen}, deleting |-> gone]
               rec == [row[f] EXCEPT !.state = "deleted"]
    <2>1. f \in Files /\ row[f].state # "none" /\ (StillAsListed(seen) => MayGo(f))
      BY <1>1, <1>5 DEF CleanerIsLate, StillAsListed
    <2>2. /\ UNCHANGED <<fileTime, object, putting, case>> /\ cleaner' = [cleaner EXCEPT ![w] = view]
          /\ row' = IF StillAsListed(seen) THEN [row EXCEPT ![f] = rec] ELSE row
      BY <1>5 DEF MarkAttachmentDeleted
    <2>3. /\ rec \in FileRows /\ rec.state = "deleted" /\ rec.of = row[f].of /\ rec.at = row[f].at
      BY <2>1 DEF FileRows, FileStates
    <2>4. view \in Views /\ view.listed \subseteq cleaner[w].listed /\ view.deleting = gone
      BY <1>1, <2>1
    <2> HIDE DEF rec, view, f
    <2>5. /\ row' \in [Files -> FileRows] /\ cleaner' \in [Cleaners -> Views]
          /\ \A g \in Files : /\ row'[g].of = row[g].of /\ row'[g].at = row[g].at
                              /\ \/ row'[g].state = row[g].state
                                 \/ g = f /\ StillAsListed(seen) /\ row'[g].state = "deleted"
          /\ StillAsListed(seen) => row'[f].state = "deleted"
      BY <2>1, <2>2, <2>3, <2>4
    <2>6. \A g \in Files : MayGo(g)' <=> MayGo(g)
      BY <2>2, <2>5 DEF MayGo
    <2>7. \A g \in Files : RowIsTrue(g)'
      BY <2>1, <2>2, <2>5, <2>6 DEF RowIsTrue
    <2>8. \A g \in Files : row[g].state = "deleted" => row'[g].state = "deleted"
      BY <2>5
    <2>9. ASSUME NEW x \in Cleaners PROVE CleanerIsLate(x)'
      <3>1. CleanerIsLate(x)
        OBVIOUS
      <3>2. cleaner'[x].listed \subseteq cleaner[x].listed
        BY <2>2, <2>4
      <3>3. ASSUME NEW s \in cleaner'[x].listed
            PROVE  /\ s.file \in Files /\ row'[s.file].state # "none"
                   /\ s.state = "attached" => row'[s.file].state \in {"attached", "deleted"}
                   /\ row'[s.file].state = s.state => MayGo(s.file)'
        <4>1. /\ s.file \in Files /\ row[s.file].state # "none"
              /\ s.state = "attached" => row[s.file].state \in {"attached", "deleted"}
              /\ row[s.file].state = s.state => MayGo(s.file)
          BY <3>1, <3>2 DEF CleanerIsLate
        <4>. QED BY <2>1, <2>5, <2>6, <4>1
      <3>4. cleaner'[x].deleting # NoFile => cleaner'[x].deleting \in Files /\ row'[cleaner'[x].deleting].state = "deleted"
        BY <2>1, <2>2, <2>4, <2>5, <2>8, <3>1 DEF CleanerIsLate
      <3>. QED BY <3>3, <3>4 DEF CleanerIsLate
    <2>. QED BY <2>2, <2>5, <2>7, <2>9
  <1>. QED BY <1>2, <1>3, <1>4, <1>5

LEMMA NextKeepsFilesInv == FilesInv /\ [AttachmentsNext]_attachmentsVars => FilesInv'
  <1> SUFFICES ASSUME FilesInv, [AttachmentsNext]_attachmentsVars PROVE FilesInv'
    OBVIOUS
  <1>1. ASSUME NEW files \in SUBSET Files, NEW o \in Owners, AttachToMessage(files, o) \/ attachEvidence(files, o)
        PROVE  FilesInv'
    BY <1>1, AttachKeepsFilesInv DEF AttachToMessage, attachEvidence
  <1>2. CASE UNCHANGED attachmentsVars
    BY <1>2 DEF attachmentsVars, FilesInv, RowIsTrue, CleanerIsLate, MayGo
  <1>3. CASE AttachmentsNext
    BY <1>1, <1>3, AgeingKeepsFilesInv, CloseKeepsFilesInv, UploadKeepsFilesInv, CleaningKeepsFilesInv DEF AttachmentsNext
  <1>. QED BY <1>2, <1>3

(* Evidence that can be opened is in the bucket, and none goes before its  *)
(* time, with any number of files and of workers that clean at once.       *)
THEOREM EvidenceAlwaysKept == AttachmentsSpec => []EvidenceIsKept
  <1>1. FilesInv => EvidenceIsKept
    BY DEF FilesInv, RowIsTrue, MayGo, EvidenceIsKept, Readable
  <1>. QED BY <1>1, InitHasFilesInv, NextKeepsFilesInv, PTL DEF AttachmentsSpec

-----------------------------------------------------------------------------
(***************************************************************************)
(* Response deadlines.                                                     *)
(***************************************************************************)
ItemRows == [stage : Stages, due : Nat, reminder : Int, overall : {OverallLimit}, pausedAt : Nat \cup {NotPaused},
             active : BOOLEAN, attention : BOOLEAN, deadline : Nat, legacy : BOOLEAN, breachedAt : Int,
             assignee : Admins \cup {NoOne}]

\* During a wait the operators have what they had when it began.
TimeIsKept(i, time) ==
    i.active /\ i.due < i.overall => (IF Paused(i) THEN i.due - i.pausedAt ELSE i.due - now) = time

ItemIsSound(i, time) == i \in ItemRows /\ (Paused(i) => i.pausedAt <= now) /\ time \in Int /\ TimeIsKept(i, time)

DeadlineInv == now \in Nat /\ ItemIsSound(item, left)

\* Rows of one standing deadline.
SameDeadline(i, j) ==
    /\ j.stage = i.stage /\ j.due = i.due /\ j.overall = i.overall /\ j.pausedAt = i.pausedAt
    /\ j.active = i.active

LEMMA BreachedRow ==
  ASSUME now \in Nat, NEW i \in ItemRows, NEW j, j = Breached(i)
  PROVE  /\ j \in ItemRows /\ SameDeadline(i, j) /\ j.deadline = i.deadline
         /\ i.active /\ now >= EffectiveDueAt(i) => j.breachedAt # NotBreached
  <1>1. EffectiveDueAt(i) \in Nat
    BY DeadlineAssumption DEF ItemRows, EffectiveDueAt
  <1>. QED BY <1>1, DeadlineAssumption DEF Breached, ItemRows, SameDeadline, NotBreached

\* A stage that starts outside a wait.
Started(i, stage, at) == start(i, stage, FALSE, at)

LEMMA StartedRow ==
  ASSUME NEW i \in ItemRows, NEW stage \in Stages, NEW at \in Nat, NEW j, j = Started(i, stage, at)
  PROVE  /\ j \in ItemRows /\ j.stage = stage /\ j.pausedAt = NotPaused /\ j.active
         /\ j.deadline = i.deadline /\ j.breachedAt = i.breachedAt
  <1> DEFINE due == Earlier(at + Duration(stage), i.overall)
             reminder == at + ((due - at) * 3) \div 4
  <1>1. due \in Nat
    BY DeadlineAssumption DEF Earlier, ItemRows
  <1>2. reminder \in Int
    BY <1>1
  <1>3. j = [i EXCEPT !.stage = stage, !.due = due, !.reminder = reminder, !.pausedAt = NotPaused,
                      !.active = TRUE, !.attention = FALSE]
    BY DEF Started, start
  <1> HIDE DEF due, reminder
  <1>. QED BY <1>1, <1>2, <1>3 DEF ItemRows

LEMMA ResumedRow ==
  ASSUME now \in Nat, NEW i \in ItemRows, Paused(i), i.pausedAt <= now, NEW j, j = Resumed(i)
  PROVE  /\ j \in ItemRows /\ j.stage = i.stage /\ j.pausedAt = NotPaused /\ j.active = i.active
         /\ j.deadline = i.deadline /\ j.breachedAt = i.breachedAt /\ j.overall = i.overall
         /\ j.due < j.overall => j.due = i.due + (now - i.pausedAt)
  <1> DEFINE due == Earlier(i.due + (now - i.pausedAt), i.overall)
             reminder == Earlier(i.reminder + (now - i.pausedAt), due)
  <1>1. i.pausedAt \in Nat /\ i.due \in Nat /\ i.reminder \in Int /\ i.overall \in Nat
    BY DeadlineAssumption DEF ItemRows, Paused
  <1>2. due \in Nat /\ (due < i.overall => due = i.due + (now - i.pausedAt))
    BY <1>1 DEF Earlier
  <1>3. reminder \in Int
    BY <1>1, <1>2 DEF Earlier
  <1>4. j = [i EXCEPT !.due = due, !.reminder = reminder, !.pausedAt = NotPaused]
    BY DEF Resumed
  <1> HIDE DEF due, reminder
  <1>. QED BY <1>1, <1>2, <1>3, <1>4 DEF ItemRows

(* The owner's sync: a new deadline gives its stage the full time, and a   *)
(* wait of the same stage costs none.                                      *)
LEMMA SyncIsSound ==
  ASSUME DeadlineInv, NEW stage \in Stages \cup {"none"}, NEW pause \in BOOLEAN, pause => item.active,
         NEW new, new = Apply(stage, pause)
  PROVE  /\ ItemIsSound(new, Left(new))
         /\ item.active /\ now >= EffectiveDueAt(item) /\ new.deadline # item.deadline => new.breachedAt # NotBreached
  <1> USE DEF DeadlineInv, ItemIsSound, TimeIsKept, Paused, Left, SameDeadline
  <1>1. PICK i : i = Breached(item)
    OBVIOUS
  <1>2. /\ i \in ItemRows /\ SameDeadline(item, i) /\ i.deadline = item.deadline
        /\ item.active /\ now >= EffectiveDueAt(item) => i.breachedAt # NotBreached
    BY <1>1, BreachedRow DEF DeadlineInv, ItemIsSound
  <1>3. PICK next : next = [i EXCEPT !.deadline = @ + 1]
    OBVIOUS
  <1>4. /\ next \in ItemRows /\ SameDeadline(item, next) /\ next.deadline = item.deadline + 1
        /\ next.breachedAt = i.breachedAt /\ item.deadline + 1 # item.deadline
    BY <1>2, <1>3 DEF ItemRows
  <1>5. CASE new = item
    BY <1>5
  <1>6. CASE new = i
    BY <1>2, <1>6
  <1>7. CASE stage = "none" /\ new = [next EXCEPT !.active = FALSE]
    <2>1. new \in ItemRows /\ new.active = FALSE /\ new.pausedAt = next.pausedAt /\ new.due = next.due
          /\ new.deadline = next.deadline /\ new.breachedAt = next.breachedAt
      BY <1>4, <1>7 DEF ItemRows
    <2>2. Left(new) \in Int
      BY <1>4, <2>1 DEF ItemRows
    <2>. QED BY <1>2, <1>4, <2>1, <2>2
  <1>8. ASSUME pause, ~(Paused(i) /\ i.active), new = [next EXCEPT !.pausedAt = now]
        PROVE  /\ ItemIsSound(new, Left(new))
               /\ item.active /\ now >= EffectiveDueAt(item) /\ new.deadline # item.deadline => new.breachedAt # NotBreached
    <2>1. /\ new \in ItemRows /\ new.pausedAt = now /\ new.due = next.due /\ new.stage = next.stage
          /\ new.overall = next.overall /\ new.active = next.active
          /\ new.deadline = next.deadline /\ new.breachedAt = next.breachedAt
      BY <1>4, <1>8 DEF ItemRows
    <2>2. item.active
      BY <1>8
    <2>3. ~Paused(i)
      BY <1>2, <1>8, <2>2
    <2>4. Paused(new) /\ ~Paused(item)
      BY <1>2, <2>1, <2>3 DEF NotPaused
    <2>5. Left(new) = left
      BY <1>4, <2>1, <2>2, <2>4
    <2>. QED BY <1>2, <1>4, <2>1, <2>2, <2>4, <2>5
  <1>9. ASSUME Paused(i), i.active, i.stage = stage, new = Resumed(next)
        PROVE  /\ ItemIsSound(new, Left(new))
               /\ item.active /\ now >= EffectiveDueAt(item) /\ new.deadline # item.deadline => new.breachedAt # NotBreached
    <2>1. /\ new \in ItemRows /\ new.stage = next.stage /\ new.pausedAt = NotPaused /\ new.active = next.active
          /\ new.deadline = next.deadline /\ new.breachedAt = next.breachedAt /\ new.overall = next.overall
          /\ new.due < new.overall => new.due = next.due + (now - next.pausedAt)
      BY <1>2, <1>4, <1>9, ResumedRow
    <2>2. Left(new) = left
      BY <1>2, <1>4, <1>9, <2>1
    <2>3. Paused(item) /\ item.active
      BY <1>2, <1>9
    <2>4. item.due \in Nat /\ item.pausedAt \in Nat /\ item.overall \in Nat /\ item.pausedAt <= now
      BY <2>3, DeadlineAssumption DEF ItemRows
    <2>5. item.due < item.overall => item.due - item.pausedAt = left
      BY <2>3
    <2>6. TimeIsKept(new, left)
      BY <1>4, <2>1, <2>4, <2>5
    <2>. QED BY <1>2, <1>4, <2>1, <2>2, <2>6
  <1>10. ASSUME stage \in Stages, i.stage # stage \/ ~i.active, new = [start(next, stage, FALSE, now) EXCEPT !.legacy = FALSE]
         PROVE  /\ ItemIsSound(new, Left(new))
                /\ item.active /\ now >= EffectiveDueAt(item) /\ new.deadline # item.deadline => new.breachedAt # NotBreached
    <2>1. PICK begun : begun = Started(next, stage, now)
      OBVIOUS
    <2>2. /\ begun \in ItemRows /\ begun.stage = stage /\ begun.pausedAt = NotPaused /\ begun.active
          /\ begun.deadline = next.deadline /\ begun.breachedAt = next.breachedAt
      <3>1. stage \in Stages
        BY <1>10
      <3>2. now \in Nat /\ next \in ItemRows
        BY <1>4
      <3>. QED BY <2>1, <3>1, <3>2, StartedRow
    <2>3. new = [begun EXCEPT !.legacy = FALSE]
      BY <1>10, <2>1 DEF Started
    <2>4. /\ new \in ItemRows /\ new.stage = stage /\ new.pausedAt = NotPaused /\ new.due \in Nat
          /\ new.deadline = next.deadline /\ new.breachedAt = next.breachedAt
      BY <2>2, <2>3 DEF ItemRows
    <2>5. Left(new) = new.due - now
      BY <1>2, <1>4, <1>10, <2>4
    <2>. QED BY <1>2, <1>4, <2>4, <2>5
  <1>. QED BY <1>1, <1>3, <1>5, <1>6, <1>7, <1>8, <1>9, <1>10 DEF Apply

LEMMA InitHasDeadlineInv == DeadlinesInit => DeadlineInv
  <1> SUFFICES ASSUME DeadlinesInit PROVE DeadlineInv
    OBVIOUS
  <1>1. PICK stage \in Stages, legacy \in BOOLEAN : item = NewItem(stage, legacy)
    BY DEF DeadlinesInit
  <1>2. PICK blank : blank = [stage |-> stage, due |-> 0, reminder |-> 0, overall |-> OverallLimit, pausedAt |-> NotPaused,
                              active |-> TRUE, attention |-> FALSE, deadline |-> 1, legacy |-> legacy,
                              breachedAt |-> NotBreached, assignee |-> NoOne]
    OBVIOUS
  <1>3. blank \in ItemRows
    BY <1>2 DEF ItemRows, NotBreached
  <1>4. item = Started(blank, stage, 0)
    BY <1>1, <1>2 DEF NewItem, Started
  <1>5. item \in ItemRows /\ item.pausedAt = NotPaused
    BY <1>3, <1>4, StartedRow
  <1>6. now = 0 /\ left = item.due /\ item.due \in Nat
    BY <1>5 DEF DeadlinesInit, ItemRows
  <1>. QED BY <1>5, <1>6 DEF DeadlineInv, ItemIsSound, TimeIsKept, Paused

\* What a deadline's end or move must remember.
KeepsMisses == item.active /\ now >= EffectiveDueAt(item) /\ item'.deadline # item.deadline => item'.breachedAt # NotBreached

(* Commands and the scan write into the standing deadline.                 *)
LEMMA StandingIsSound ==
  ASSUME DeadlineInv, item' \in ItemRows, SameDeadline(item, item'), item'.deadline = item.deadline, UNCHANGED <<now, left>>
  PROVE  DeadlineInv' /\ KeepsMisses
  BY DEF DeadlineInv, ItemIsSound, TimeIsKept, SameDeadline, Paused, KeepsMisses

LEMMA ExtendIsSound ==
  ASSUME DeadlineInv, NEW due \in 1 .. OverallLimit, Extend(due)
  PROVE  DeadlineInv' /\ KeepsMisses
  <1>1. PICK i : i = Breached(item)
    OBVIOUS
  <1>2. now \in Nat /\ item \in ItemRows /\ due \in Nat /\ due > now
    BY DEF DeadlineInv, ItemIsSound, Extend
  <1>3. /\ i \in ItemRows /\ SameDeadline(item, i) /\ i.deadline = item.deadline
        /\ item.active /\ now >= EffectiveDueAt(item) => i.breachedAt # NotBreached
    BY <1>1, <1>2, BreachedRow
  <1>4. PICK reminder : reminder = now + ((due - now) * 3) \div 4
    OBVIOUS
  <1>5. PICK extended : extended = [i EXCEPT !.due = due, !.reminder = reminder, !.deadline = @ + 1, !.attention = FALSE]
    OBVIOUS
  <1>6. item' = extended /\ now' = now /\ left' = due - now /\ ~Paused(item)
    BY <1>1, <1>4, <1>5 DEF Extend, Command
  <1>7. reminder \in Int /\ due \in Nat /\ i \in ItemRows
    BY <1>2, <1>3, <1>4
  <1>8. /\ extended \in ItemRows /\ extended.due = due /\ extended.pausedAt = i.pausedAt
        /\ extended.active = i.active /\ extended.breachedAt = i.breachedAt
    <2>1. PICK next : next = [i EXCEPT !.deadline = @ + 1]
      OBVIOUS
    <2>2. /\ next \in ItemRows /\ next.pausedAt = i.pausedAt /\ next.active = i.active
          /\ next.breachedAt = i.breachedAt
      BY <1>7, <2>1 DEF ItemRows
    <2>3. extended = [next EXCEPT !.due = due, !.reminder = reminder, !.attention = FALSE]
      BY <1>5, <1>7, <2>1 DEF ItemRows
    <2>. QED BY <1>7, <2>2, <2>3 DEF ItemRows
  <1>9. DeadlineInv'
    BY <1>2, <1>3, <1>6, <1>8 DEF DeadlineInv, ItemIsSound, TimeIsKept, SameDeadline, Paused
  <1>10. KeepsMisses
    BY <1>3, <1>6, <1>8 DEF KeepsMisses
  <1>. QED BY <1>9, <1>10

(* The scan takes a former admin off, and marks what is late.              *)
LEMMA ScanIsSound ==
  ASSUME DeadlineInv, Scan
  PROVE  DeadlineInv' /\ KeepsMisses
  <1>1. PICK kept : kept = IF item.assignee \in admins THEN item ELSE [item EXCEPT !.assignee = NoOne]
    OBVIOUS
  <1>2. PICK late : late = Breached(kept)
    OBVIOUS
  <1>3. PICK attention \in BOOLEAN : item' = [late EXCEPT !.attention = attention]
    <2>1. item' = [late EXCEPT !.attention = @ \/ now >= EffectiveDueAt(kept) + 3 * Step]
      BY <1>1, <1>2 DEF Scan
    <2>. QED BY <2>1
  <1>4. now \in Nat /\ kept \in ItemRows /\ SameDeadline(item, kept) /\ kept.deadline = item.deadline
    BY <1>1 DEF DeadlineInv, ItemIsSound, ItemRows, SameDeadline
  <1>5. late \in ItemRows /\ SameDeadline(kept, late) /\ late.deadline = kept.deadline
    BY <1>2, <1>4, BreachedRow
  <1>6. item' \in ItemRows /\ SameDeadline(item, item') /\ item'.deadline = item.deadline
    BY <1>3, <1>4, <1>5 DEF ItemRows, SameDeadline
  <1>7. UNCHANGED <<now, left>>
    BY DEF Scan
  <1>. QED BY <1>6, <1>7, StandingIsSound

LEMMA NextKeepsDeadlineInv ==
  ASSUME DeadlineInv, [DeadlinesNext]_deadlinesVars
  PROVE  DeadlineInv' /\ [KeepsMisses]_deadlinesVars
  <1>1. item \in ItemRows
    BY DEF DeadlineInv, ItemIsSound
  <1>2. ASSUME UNCHANGED <<now, item, left>>
        PROVE  DeadlineInv' /\ KeepsMisses
    BY <1>2 DEF DeadlineInv, ItemIsSound, TimeIsKept, Paused, KeepsMisses
  <1>3. CASE TimePasses
    <2>1. now' = now + 1 /\ left' = (IF Paused(item) THEN left ELSE left - 1) /\ item' = item
      BY <1>3 DEF TimePasses
    <2>2. KeepsMisses
      BY <2>1 DEF KeepsMisses
    <2>3. DeadlineInv'
      BY <2>1 DEF DeadlineInv, ItemIsSound, TimeIsKept, Paused, ItemRows
    <2>. QED BY <2>2, <2>3
  <1>4. ASSUME NEW stage \in Stages \cup {"none"}, NEW pause \in BOOLEAN, Sync(stage, pause)
        PROVE  DeadlineInv' /\ KeepsMisses
    <2>1. PICK new : new = Apply(stage, pause)
      OBVIOUS
    <2>2. (pause => item.active) /\ item' = new /\ left' = Left(new) /\ now' = now
      BY <1>4, <2>1 DEF Sync
    <2>3. /\ ItemIsSound(new, Left(new))
          /\ item.active /\ now >= EffectiveDueAt(item) /\ new.deadline # item.deadline => new.breachedAt # NotBreached
      BY <2>1, <2>2, SyncIsSound
    <2>4. KeepsMisses
      BY <2>2, <2>3 DEF KeepsMisses
    <2>5. DeadlineInv'
      BY <2>2, <2>3 DEF DeadlineInv, ItemIsSound, TimeIsKept
    <2>. QED BY <2>4, <2>5
  <1>5. ASSUME NEW a \in Admins \cup {NoOne}, Assign(a)
        PROVE  DeadlineInv' /\ KeepsMisses
    <2>1. item' = [item EXCEPT !.assignee = a] /\ UNCHANGED <<now, left>>
      BY <1>5 DEF Assign, Command
    <2>2. item' \in ItemRows /\ SameDeadline(item, item') /\ item'.deadline = item.deadline
      BY <1>1, <2>1 DEF ItemRows, SameDeadline
    <2>. QED BY <2>1, <2>2, StandingIsSound
  <1>6. CASE Activate
    <2>1. item' = [item EXCEPT !.legacy = FALSE] /\ UNCHANGED <<now, left>>
      BY <1>6 DEF Activate, Command
    <2>2. item' \in ItemRows /\ SameDeadline(item, item') /\ item'.deadline = item.deadline
      BY <1>1, <2>1 DEF ItemRows, SameDeadline
    <2>. QED BY <2>1, <2>2, StandingIsSound
  <1>7. ASSUME \/ ReplayNotices
               \/ \E a \in Admins : AdminLeaves(a)
               \/ \E n \in NoticeKinds : Park(n) \/ LeaseEnds(n) \/ \E w \in Workers : Claim(w, n)
               \/ \E w \in Workers : Record(w) \/ Crash(w) \/ \E taken \in BOOLEAN : Publish(w, taken)
        PROVE  DeadlineInv' /\ KeepsMisses
    BY <1>2, <1>7 DEF ReplayNotices, AdminLeaves, Park, LeaseEnds, Claim, Record, Crash, Publish
  <1>8. CASE UNCHANGED deadlinesVars
    BY <1>2, <1>8 DEF deadlinesVars
  <1>9. CASE DeadlinesNext
    BY <1>3, <1>4, <1>5, <1>6, <1>7, <1>9, ScanIsSound, ExtendIsSound DEF DeadlinesNext
  <1>. QED BY <1>8, <1>9

(* A wait for the buyer costs the operators none of their time, however    *)
(* often a case is put on hold.                                            *)
THEOREM OperatorsAlwaysKeepTime == DeadlinesSpec => []OperatorsKeepTheirTime
  <1>1. DeadlineInv => OperatorsKeepTheirTime
    BY DEF DeadlineInv, ItemIsSound, TimeIsKept, OperatorsKeepTheirTime
  <1>. QED BY <1>1, InitHasDeadlineInv, NextKeepsDeadlineInv, PTL DEF DeadlinesSpec

(* No step that moves or ends a deadline forgets that it was missed.       *)
THEOREM MissesAreRemembered == DeadlinesSpec => MissedStaysMissed
  <1>1. [KeepsMisses]_deadlinesVars
          <=> [(item.active /\ now >= EffectiveDueAt(item) /\ item'.deadline # item.deadline)
                 => item'.breachedAt # NotBreached]_deadlinesVars
    BY DEF KeepsMisses
  <1>. QED BY <1>1, InitHasDeadlineInv, NextKeepsDeadlineInv, PTL DEF DeadlinesSpec, MissedStaysMissed

-----------------------------------------------------------------------------
(* A case keeps its promises where all of its components run side by side: *)
(* they share no table, so each keeps its part.                            *)
THEOREM CasesAlwaysKept ==
  SupportSpec /\ AttachmentsSpec /\ DeadlinesSpec => []CasesAreKept
  BY DisputedMoneyAlwaysHeld, ReleasedHoldAlwaysGone, CasesAlwaysFollowRefunds, EvidenceAlwaysKept,
     OperatorsAlwaysKeepTime, PTL DEF CasesAreKept

=============================================================================
