----------------------------- MODULE MoneyProofs -----------------------------
(***************************************************************************)
(* The money service keeps its books, and no money leaves or is taken for  *)
(* paid on one word, for any number of intents, vendor orders, payouts,    *)
(* reimbursements, admins and bank references.                             *)
(*                                                                         *)
(* Seven arguments.  A refund is tied to its newest transfer attempt.  A   *)
(* captured intent goes back to a paid link.  A payout item's approval     *)
(* state says which approvers it has had, and each of them is a new        *)
(* person; a request under review has a reviewer other than its maker      *)
(* until the review ends.  A decision about a reimbursement is under way   *)
(* with a proof for exactly that version, and only the first version is    *)
(* still to be decided.  Every ledger entry says where it comes from,      *)
(* payouts claim disjoint sets of them, and payouts and what they paid sum *)
(* to zero.  Refunds commit no more than the capture.  The composition     *)
(* (MCMoney) moves one component at a time, so what is proved here of each *)
(* holds of all.                                                           *)
(***************************************************************************)
EXTENDS MCMoney, FiniteSetTheorems, SequenceTheorems, WellFoundedInduction, TLAPS

(***************************************************************************)
(* Refunds: what a refund's status says happened to the money, and where   *)
(* the money goes.  The inductive invariant ties each refund to its newest *)
(* transfer attempt: an open refund has sent what its attempt sent, a      *)
(* resolved one has no attempt under way, and only the newest version of a *)
(* destination is current.                                                 *)
(***************************************************************************)

Resolved == {"succeeded", "failed"}
DestStatuses == {"pending_verification", "verified", "superseded", "rejected"}
Someone == Admins \cup {NoAdmin}

AttemptRecords ==
  [stage : {"none", "ready", "executing", "submitted", "unknown", "confirmed", "failed", "voided"},
   dest : Nat, claimedBy : Someone, submittedBy : Someone, lease : BOOLEAN, sent : BOOLEAN]

RequestRecords ==
  [status : {"none", "draft", "pending", "approved", "closed"}, maker : Someone, checker : Someone,
   outcome : {"none"} \cup Resolved, snap : {"none", "awaiting_provider_refund"} \cup Resolved,
   due : BOOLEAN]

(* Type invariant of Refunds and of the requests about them.               *)
RefundsTypeOK ==
  /\ workflowOn \in BOOLEAN
  /\ capturedIntent \in {"captured", "refunded"}
  /\ refund \in [Refunds -> [status : {"none", "awaiting_provider_refund"} \cup Resolved, amount : Nat]]
  /\ dest \in [Refunds -> Seq(DestStatuses)]
  /\ attempt \in [Refunds -> AttemptRecords]
  /\ attempts \in [Refunds -> Nat]
  /\ sync \in [Refunds -> [state : {"none", "queued", "delivered", "review"}, tries : Nat]]
  /\ told \in [Refunds -> {"none"} \cup Resolved]
  /\ sent \in [Refunds -> Nat]
  /\ request \in [Refunds -> RequestRecords]
  /\ review \in [Refunds -> Someone]
  /\ preparers \subseteq Admins

(* An open request asks for one of the two outcomes.                       *)
RequestAsks(f) == OpenRequest(f) => request[f].outcome \in Resolved

(* Attempts are made for open refunds; one that sent money is under way or *)
(* confirmed, and a submitted one sent money.                              *)
AttemptIsOfOpenRefund(f) ==
  /\ Active(f) => OpenRefund(f)
  /\ attempt[f].sent => attempt[f].stage \in {"executing", "submitted", "unknown", "confirmed"}
  /\ attempt[f].stage = "submitted" => attempt[f].sent
  /\ attempt[f].stage = "confirmed" => refund[f].status = "succeeded"

(* What left the bank follows from the refund and its newest attempt.      *)
MoneySent(f) ==
  sent[f] = IF refund[f].status = "succeeded" \/ (OpenRefund(f) /\ attempt[f].sent) THEN 1 ELSE 0

(* Order hears of a refund only when it is resolved, and hears its outcome. *)
ToldTheOutcome(f) ==
  /\ refund[f].status \notin Resolved => sync[f].state = "none"
  /\ told[f] \in {"none", refund[f].status}

(* Only the newest destination is current, and an attempt under way goes   *)
(* to it.                                                                  *)
DestinationIsNewest(f) ==
  /\ Current(f) \subseteq {Len(dest[f])}
  /\ Active(f) => attempt[f].dest \in Current(f) /\ dest[f][attempt[f].dest] = "verified"

RefundInv(f) == /\ RequestAsks(f) /\ AttemptIsOfOpenRefund(f) /\ MoneySent(f)
                /\ ToldTheOutcome(f) /\ DestinationIsNewest(f)

RefundsInv == RefundsTypeOK /\ \A f \in Refunds : RefundInv(f)

-----------------------------------------------------------------------------
(* Lemmas.                                                                 *)

SameRefund(g) ==
  /\ refund'[g] = refund[g] /\ dest'[g] = dest[g] /\ attempt'[g] = attempt[g]
  /\ sync'[g] = sync[g] /\ told'[g] = told[g] /\ sent'[g] = sent[g]
  /\ request'[g] = request[g]

(* The invariant of a refund reads nothing but that refund's rows.         *)
LEMMA SameRefundInv ==
  ASSUME NEW g \in Refunds, RefundInv(g), SameRefund(g)
  PROVE  RefundInv(g)'
<1>1. RequestAsks(g)'
  BY DEF RefundInv, SameRefund, RequestAsks, OpenRequest
<1>2. AttemptIsOfOpenRefund(g)'
  BY DEF RefundInv, SameRefund, AttemptIsOfOpenRefund, Active, OpenRefund
<1>3. MoneySent(g)'
  BY DEF RefundInv, SameRefund, MoneySent, OpenRefund
<1>4. ToldTheOutcome(g)'
  BY DEF RefundInv, SameRefund, ToldTheOutcome
<1>5. DestinationIsNewest(g)'
  BY DEF RefundInv, SameRefund, DestinationIsNewest, Active, Current
<1> QED BY <1>1, <1>2, <1>3, <1>4, <1>5 DEF RefundInv

(* Every action works on the rows of one refund: the invariant of the      *)
(* others is kept.                                                         *)
LEMMA OneRefundChanges ==
  ASSUME NEW f \in Refunds, RefundsInv, RefundsTypeOK', RefundInv(f)',
         \A g \in Refunds \ {f} : SameRefund(g)
  PROVE  RefundsInv'
BY SameRefundInv DEF RefundsInv

(* Where neither the destinations nor the attempt move, their part of the  *)
(* invariant is kept.                                                      *)
LEMMA SameDestination ==
  ASSUME NEW f \in Refunds, RefundInv(f), dest' = dest, attempt'[f] = attempt[f]
  PROVE  DestinationIsNewest(f)'
BY DEF RefundInv, DestinationIsNewest, Active, Current

LEMMA InitInv == RefundsInit => RefundsInv
<1> SUFFICES ASSUME RefundsInit PROVE RefundsInv
  OBVIOUS
<1> USE DEF RefundsInit, RefundsStart, ApprovalInit, NoAttempt, NoRequest
<1>1. RefundsTypeOK
  <2>1. attempt \in [Refunds -> AttemptRecords]
    BY DEF AttemptRecords, Someone
  <2>2. request \in [Refunds -> RequestRecords]
    BY DEF RequestRecords, Someone
  <2>3. dest \in [Refunds -> Seq(DestStatuses)]
    OBVIOUS
  <2> QED BY <2>1, <2>2, <2>3 DEF RefundsTypeOK, Someone
<1>2. ASSUME NEW f \in Refunds PROVE RefundInv(f)
  <2>1. Current(f) = {}
    BY DEF Current
  <2> QED BY <2>1 DEF RefundInv, RequestAsks, OpenRequest, AttemptIsOfOpenRefund, Active, MoneySent,
                OpenRefund, ToldTheOutcome, DestinationIsNewest
<1> QED BY <1>1, <1>2 DEF RefundsInv

-----------------------------------------------------------------------------
(* Requests about a refund.                                                *)

LEMMA RequestRefundInv ==
  ASSUME RefundsInv, NEW f \in Refunds, NEW amount \in 1..Capture, RequestRefund(f, amount)
  PROVE  RefundsInv'
<1> USE DEF RefundsInv, RequestRefund, approvalVars
<1>1. RefundsTypeOK'
  BY RefundsAssumption DEF RefundsTypeOK
<1>2. RefundInv(f)'
  <2>1. DestinationIsNewest(f)'
    BY SameDestination
  <2> QED BY <2>1 DEF RefundsTypeOK, RefundInv, RequestAsks, OpenRequest, AttemptIsOfOpenRefund, Active,
                    MoneySent, OpenRefund, ToldTheOutcome, Resolved
<1>3. \A g \in Refunds \ {f} : SameRefund(g)
  BY DEF RefundsTypeOK, SameRefund
<1> QED BY <1>1, <1>2, <1>3, OneRefundChanges

(* What may become of the request about f: it stays as typed, and asks for *)
(* an outcome while it is open.                                            *)
RequestMoves(f) ==
  /\ request' = [request EXCEPT ![f] = request'[f]]
  /\ request'[f] \in RequestRecords /\ RequestAsks(f)'
  /\ review' \in [Refunds -> Someone] /\ preparers' = preparers

LEMMA TransitionType ==
  ASSUME RefundsInv, NEW f \in Refunds, NEW to \in {"pending", "approved", "expired", "rejected", "cancelled"},
         NEW checker \in Someone, OpenRequest(f), Transition(f, to, checker),
         review' \in [Refunds -> Someone], preparers' = preparers
  PROVE  RequestMoves(f)
<1> USE DEF RefundsInv, RefundsTypeOK
<1>1. request[f] \in RequestRecords
  OBVIOUS
<1>2. CASE to \in {"pending", "approved"}
  <2>1. request' = [request EXCEPT ![f] = [request[f] EXCEPT !.status = to, !.checker = checker]]
    BY <1>2 DEF Transition
  <2>2. [request[f] EXCEPT !.status = to, !.checker = checker] \in RequestRecords
    BY <1>1, <1>2 DEF RequestRecords
  <2>3. request'[f].outcome = request[f].outcome
    BY <1>1, <2>1 DEF RequestRecords
  <2> QED BY <2>1, <2>2, <2>3 DEF RequestMoves, RequestAsks, RefundInv, OpenRequest
<1>3. CASE to \notin {"pending", "approved"}
  <2>1. request' = [request EXCEPT ![f] = [NoRequest EXCEPT !.status = "closed"]]
    BY <1>3 DEF Transition
  <2>2. [NoRequest EXCEPT !.status = "closed"] \in RequestRecords
    BY DEF NoRequest, RequestRecords, Someone
  <2>3. request'[f].status = "closed"
    BY <2>1 DEF NoRequest
  <2> QED BY <2>1, <2>2, <2>3 DEF RequestMoves, RequestAsks, OpenRequest
<1> QED BY <1>2, <1>3

(* A request moving changes nothing about the refund.                      *)
LEMMA RequestMovesInv ==
  ASSUME RefundsInv, NEW f \in Refunds, RequestMoves(f), UNCHANGED refundVars
  PROVE  RefundsInv'
<1> USE DEF RefundsInv, RequestMoves, refundVars
<1>1. RefundsTypeOK'
  BY DEF RefundsTypeOK
<1>2. RefundInv(f)'
  <2>1. DestinationIsNewest(f)'
    BY SameDestination
  <2>2. (AttemptIsOfOpenRefund(f) /\ MoneySent(f) /\ ToldTheOutcome(f))'
    BY DEF RefundInv, AttemptIsOfOpenRefund, Active, MoneySent, OpenRefund, ToldTheOutcome
  <2> QED BY <2>1, <2>2 DEF RefundInv
<1>3. \A g \in Refunds \ {f} : SameRefund(g)
  BY DEF RefundsTypeOK, SameRefund
<1> QED BY <1>1, <1>2, <1>3, OneRefundChanges

LEMMA DraftResolutionInv ==
  ASSUME RefundsInv, NEW f \in Refunds, NEW a \in Admins, NEW outcome \in Resolved, DraftResolution(f, a, outcome)
  PROVE  RefundsInv'
<1> DEFINE r == [NoRequest EXCEPT !.status = "draft", !.maker = a, !.outcome = outcome, !.snap = snapshot(f)]
<1>1. request' = [request EXCEPT ![f] = r] /\ review' = [review EXCEPT ![f] = NoAdmin] /\ preparers' = preparers
  BY DEF DraftResolution, Draft
<1>2. snapshot(f) = "awaiting_provider_refund"
  BY DEF DraftResolution, OpenRefund, snapshot
<1>3. r \in RequestRecords /\ r.outcome = outcome
  BY <1>2 DEF NoRequest, RequestRecords, Someone, Resolved
<1> HIDE DEF r
<1>4. request'[f] = r
  BY <1>1 DEF RefundsInv, RefundsTypeOK
<1>5. RequestMoves(f)
  BY <1>1, <1>3, <1>4 DEF RequestMoves, RequestAsks, RefundsInv, RefundsTypeOK, Someone
<1> QED BY <1>5, RequestMovesInv DEF DraftResolution

LEMMA ApprovalStepInv ==
  ASSUME RefundsInv, NEW f \in Refunds, ApprovalStep(f), UNCHANGED refundVars
  PROVE  RefundsInv'
<1> USE DEF RefundsInv
<1>1. NoAdmin \in Someone /\ \A a \in Admins : a \in Someone
  BY DEF Someone
<1>2. \A x \in Someone : [review EXCEPT ![f] = x] \in [Refunds -> Someone]
  BY DEF RefundsTypeOK
<1>3. ASSUME Submit(f) \/ expireIfDue(f) \/ Cancel(f) \/ \E c \in Admins : Reject(f, c)
      PROVE  RequestMoves(f)
  <2>1. OpenRequest(f) /\ review' \in [Refunds -> Someone] /\ preparers' = preparers
    BY <1>1, <1>2, <1>3 DEF Submit, expireIfDue, Cancel, Reject, OpenRequest, RefundsTypeOK
  <2>2. PICK to \in {"pending", "expired", "rejected", "cancelled"}, checker \in Someone :
           Transition(f, to, checker)
    BY <1>1, <1>3 DEF Submit, expireIfDue, Cancel, Reject
  <2> QED BY <2>1, <2>2, TransitionType
<1>4. ASSUME DecisionFails(f) \/ \E c \in Admins : DecideChecks(f, c) PROVE RequestMoves(f)
  <2>1. request' = request /\ preparers' = preparers /\ review' \in [Refunds -> Someone]
    BY <1>1, <1>2, <1>4 DEF DecideChecks, DecisionFails
  <2> QED BY <2>1 DEF RequestMoves, RefundInv, RequestAsks, OpenRequest, RefundsTypeOK
<1>5. ASSUME RequestOverdue(f) PROVE RequestMoves(f)
  <2>1. request' = [request EXCEPT ![f] = [request[f] EXCEPT !.due = TRUE]]
    BY <1>5 DEF RequestOverdue
  <2>2. [request[f] EXCEPT !.due = TRUE] \in RequestRecords
    BY DEF RefundsTypeOK, RequestRecords
  <2>3. request'[f].outcome = request[f].outcome /\ request'[f].status = request[f].status
    BY <2>1 DEF RefundsTypeOK, RequestRecords
  <2> QED BY <1>5, <2>1, <2>2, <2>3 DEF RequestMoves, RefundInv, RequestAsks, OpenRequest, RefundsTypeOK, RequestOverdue
<1>6. RequestMoves(f)
  BY <1>3, <1>4, <1>5 DEF ApprovalStep
<1> QED BY <1>6, RequestMovesInv

-----------------------------------------------------------------------------
(* Resolution.                                                             *)

(* What resolving an open refund leaves behind: the outcome, queued for    *)
(* Order, which has heard nothing yet.                                     *)
LEMMA ResolveEffect ==
  ASSUME RefundsInv, NEW f \in Refunds, NEW outcome \in Resolved, OpenRefund(f), Resolve(f, outcome)
  PROVE  /\ refund' \in [Refunds -> [status : {"none", "awaiting_provider_refund"} \cup Resolved, amount : Nat]]
         /\ refund'[f].status = outcome /\ told[f] = "none"
         /\ sync' \in [Refunds -> [state : {"none", "queued", "delivered", "review"}, tries : Nat]]
         /\ capturedIntent' \in {"captured", "refunded"}
         /\ \A g \in Refunds \ {f} : refund'[g] = refund[g] /\ sync'[g] = sync[g]
<1> USE DEF RefundsInv, RefundsTypeOK
<1>1. refund' = [refund EXCEPT ![f] = [refund[f] EXCEPT !.status = outcome]]
  BY DEF Resolve
<1>2. sync' = [sync EXCEPT ![f] = [state |-> "queued", tries |-> 0]]
  BY DEF Resolve
<1>3. capturedIntent' \in {"captured", "refunded"}
  BY DEF Resolve
<1>4. told[f] = "none"
  BY DEF RefundInv, ToldTheOutcome, OpenRefund, Resolved
<1> QED BY <1>1, <1>2, <1>3, <1>4

LEMMA ExecuteInv ==
  ASSUME RefundsInv, NEW f \in Refunds, execute(f)
  PROVE  RefundsInv'
<1> DEFINE outcome == request[f].outcome
<1> USE DEF RefundsInv
<1>1. OpenRequest(f) /\ outcome \in Resolved /\ OpenRefund(f) /\ ~Active(f)
  BY DEF execute, ApproveRequest, OpenRequest, RefundInv, RequestAsks, GuardLegacyResolution
<1>2. RequestMoves(f)
  <2>1. review' \in [Refunds -> Someone] /\ review[f] \in Someone /\ preparers' = preparers
    BY DEF execute, ApproveRequest, RefundsTypeOK, Someone
  <2> QED BY <1>1, <2>1, TransitionType DEF execute, ApproveRequest
<1>3. Resolve(f, outcome)
  BY DEF execute
<1> HIDE DEF outcome
<1>4. sent' = IF outcome = "succeeded" THEN [sent EXCEPT ![f] = @ + 1] ELSE sent
  BY DEF execute, outcome
<1>5. UNCHANGED <<workflowOn, dest, attempt, attempts, told>>
  BY DEF execute
<1>6. sent[f] = 0 /\ ~attempt[f].sent
  BY <1>1 DEF RefundInv, AttemptIsOfOpenRefund, MoneySent, Active, OpenRefund, RefundsTypeOK, AttemptRecords
<1>7. RefundsTypeOK'
  <2>1. sent' \in [Refunds -> Nat]
    BY <1>4 DEF RefundsTypeOK
  <2> QED BY <1>1, <1>2, <1>3, <1>5, <2>1, ResolveEffect DEF RequestMoves, RefundsTypeOK
<1>8. RefundInv(f)'
  <2>1. refund'[f].status = outcome /\ told'[f] = "none"
    BY <1>1, <1>3, <1>5, ResolveEffect
  <2>2. sent'[f] = IF outcome = "succeeded" THEN 1 ELSE 0
    BY <1>1, <1>4, <1>6 DEF RefundsTypeOK
  <2>3. DestinationIsNewest(f)'
    BY <1>5, SameDestination
  <2>4. AttemptIsOfOpenRefund(f)'
    BY <1>1, <1>5, <1>6 DEF RefundInv, AttemptIsOfOpenRefund, Active, OpenRefund
  <2>5. MoneySent(f)'
    BY <1>1, <1>5, <1>6, <2>1, <2>2 DEF MoneySent, OpenRefund, Resolved
  <2>6. ToldTheOutcome(f)'
    BY <1>1, <2>1 DEF ToldTheOutcome
  <2> QED BY <1>2, <2>3, <2>4, <2>5, <2>6 DEF RequestMoves, RefundInv
<1>9. \A g \in Refunds \ {f} : SameRefund(g)
  <2> TAKE g \in Refunds \ {f}
  <2>1. refund'[g] = refund[g] /\ sync'[g] = sync[g]
    BY <1>1, <1>3, ResolveEffect
  <2>2. sent'[g] = sent[g] /\ request'[g] = request[g]
    BY <1>2, <1>4 DEF RequestMoves, RefundsTypeOK
  <2> QED BY <1>5, <2>1, <2>2 DEF SameRefund
<1> QED BY <1>7, <1>8, <1>9, OneRefundChanges

-----------------------------------------------------------------------------
(* Destinations.                                                           *)

LEMMA SubmitDestinationInv ==
  ASSUME RefundsInv, NEW f \in Refunds, SubmitDestination(f)
  PROVE  RefundsInv'
<1> DEFINE retired == [v \in DOMAIN dest[f] |-> IF v \in Current(f) THEN "superseded" ELSE dest[f][v]]
<1> USE DEF RefundsInv
<1>1. dest[f] \in Seq(DestStatuses)
  BY DEF RefundsTypeOK
<1>2. retired \in Seq(DestStatuses) /\ Len(retired) = Len(dest[f])
        /\ \A v \in DOMAIN dest[f] : retired[v] = IF v \in Current(f) THEN "superseded" ELSE dest[f][v]
  BY <1>1 DEF DestStatuses
<1>3. \A v \in DOMAIN retired : retired[v] \notin {"pending_verification", "verified"}
  BY <1>1, <1>2 DEF Current
<1> HIDE DEF retired
<1>4. dest' = [dest EXCEPT ![f] = Append(retired, "pending_verification")]
  BY DEF SubmitDestination, AddDestination, retired
<1>5. dest'[f] = Append(retired, "pending_verification")
  BY <1>4 DEF RefundsTypeOK
<1>6. Append(retired, "pending_verification") \in Seq(DestStatuses)
  BY <1>2 DEF DestStatuses
<1>7. Current(f)' \subseteq {Len(dest[f])'}
  BY <1>2, <1>3, <1>5 DEF Current
<1>8. /\ attempt' \in [Refunds -> AttemptRecords]
      /\ ~Active(f)'
      /\ attempt'[f].sent = attempt[f].sent /\ ~attempt[f].sent
      /\ \A g \in Refunds \ {f} : attempt'[g] = attempt[g]
  <2>1. OpenRefund(f) /\ (attempt[f].stage = "ready" \/ ~Active(f))
    BY DEF SubmitDestination, MayChangeDestination
  <2>2. ~attempt[f].sent
    BY <2>1 DEF RefundInv, AttemptIsOfOpenRefund, Active, OpenRefund
  <2>3. CASE attempt[f].stage = "ready"
    <3>1. attempt' = [attempt EXCEPT ![f] = [attempt[f] EXCEPT !.stage = "voided"]]
      BY <2>3 DEF SubmitDestination
    <3>2. attempt[f] \in AttemptRecords
      BY DEF RefundsTypeOK
    <3>3. [attempt[f] EXCEPT !.stage = "voided"] \in AttemptRecords
      BY <3>2 DEF AttemptRecords
    <3>4. attempt'[f].stage = "voided" /\ attempt'[f].sent = attempt[f].sent
      BY <3>1, <3>2 DEF RefundsTypeOK, AttemptRecords
    <3> QED BY <2>2, <3>1, <3>3, <3>4 DEF Active, RefundsTypeOK
  <2>4. CASE attempt[f].stage # "ready"
    BY <2>1, <2>2, <2>4 DEF SubmitDestination, Active, RefundsTypeOK
  <2> QED BY <2>3, <2>4
<1>9. RefundsTypeOK'
  <2>1. dest' \in [Refunds -> Seq(DestStatuses)]
    BY <1>4, <1>6 DEF RefundsTypeOK
  <2> QED BY <1>8, <2>1 DEF SubmitDestination, RefundsTypeOK, approvalVars
<1>10. RefundInv(f)'
  <2>1. DestinationIsNewest(f)'
    BY <1>7, <1>8 DEF DestinationIsNewest
  <2>2. AttemptIsOfOpenRefund(f)'
    BY <1>8 DEF AttemptIsOfOpenRefund, SubmitDestination, OpenRefund, Active, RefundInv
  <2>3. (RequestAsks(f) /\ MoneySent(f) /\ ToldTheOutcome(f))'
    BY <1>8 DEF SubmitDestination, approvalVars, RefundInv, RequestAsks, OpenRequest, MoneySent, OpenRefund,
                ToldTheOutcome
  <2> QED BY <2>1, <2>2, <2>3 DEF RefundInv
<1>11. \A g \in Refunds \ {f} : SameRefund(g)
  BY <1>4, <1>8 DEF SubmitDestination, approvalVars, SameRefund, RefundsTypeOK
<1> QED BY <1>9, <1>10, <1>11, OneRefundChanges

LEMMA DecideDestinationInv ==
  ASSUME RefundsInv, NEW f \in Refunds, NEW v \in Nat, NEW verify \in BOOLEAN, DecideDestination(f, v, verify)
  PROVE  RefundsInv'
<1> DEFINE decided == IF verify THEN "verified" ELSE "rejected"
           d == [dest[f] EXCEPT ![v] = decided]
<1> USE DEF RefundsInv
<1>1. dest[f] \in Seq(DestStatuses) /\ v \in DOMAIN dest[f] /\ v \in Current(f) /\ decided \in DestStatuses
        /\ dest[f][v] = "pending_verification"
  BY DEF RefundsTypeOK, DecideDestination, Current, DestStatuses
<1>2. dest' = [dest EXCEPT ![f] = d]
  BY DEF DecideDestination
<1>3. d \in Seq(DestStatuses) /\ Len(d) = Len(dest[f]) /\ DOMAIN d = DOMAIN dest[f] /\ d[v] = decided
        /\ \A w \in DOMAIN d : w # v => d[w] = dest[f][w]
  BY <1>1
<1> HIDE DEF d
<1>4. dest'[f] = d
  BY <1>2 DEF RefundsTypeOK
<1>5. RefundsTypeOK'
  <2>1. dest' \in [Refunds -> Seq(DestStatuses)]
    BY <1>2, <1>3 DEF RefundsTypeOK
  <2> QED BY <2>1 DEF DecideDestination, RefundsTypeOK, approvalVars
<1>6. DestinationIsNewest(f)'
  <2>1. Current(f)' \subseteq Current(f)
    BY <1>1, <1>3, <1>4 DEF Current
  <2>2. ASSUME Active(f)'
        PROVE  attempt'[f].dest \in Current(f)' /\ dest'[f][attempt'[f].dest] = "verified"
    <3>1. attempt'[f] = attempt[f] /\ Active(f)
      BY <2>2 DEF DecideDestination, Active
    <3>2. attempt[f].dest \in Current(f) /\ dest[f][attempt[f].dest] = "verified"
      BY <3>1 DEF RefundInv, DestinationIsNewest
    <3> QED BY <1>1, <1>3, <1>4, <3>1, <3>2 DEF Current
  <2> QED BY <1>3, <1>4, <2>1, <2>2 DEF DestinationIsNewest, RefundInv
<1>7. RefundInv(f)'
  BY <1>6 DEF DecideDestination, approvalVars, RefundInv, RequestAsks, OpenRequest, AttemptIsOfOpenRefund,
              Active, MoneySent, OpenRefund, ToldTheOutcome
<1>8. \A g \in Refunds \ {f} : SameRefund(g)
  BY <1>2 DEF DecideDestination, approvalVars, SameRefund, RefundsTypeOK
<1> QED BY <1>5, <1>7, <1>8, OneRefundChanges

-----------------------------------------------------------------------------
(* Transfer attempts.                                                      *)

LEMMA PrepareAttemptInv ==
  ASSUME RefundsInv, NEW f \in Refunds, PrepareAttempt(f)
  PROVE  RefundsInv'
<1> USE DEF RefundsInv
<1>1. PICK v \in Current(f) :
         /\ dest[f][v] = "verified"
         /\ attempt' = [attempt EXCEPT ![f] = [NoAttempt EXCEPT !.stage = "ready", !.dest = v]]
  BY DEF PrepareAttempt
<1> DEFINE a == [NoAttempt EXCEPT !.stage = "ready", !.dest = v]
<1>2. v \in Nat
  BY DEF Current, RefundsTypeOK
<1>3. a \in AttemptRecords /\ a.stage = "ready" /\ a.dest = v /\ ~a.sent
  BY <1>2 DEF NoAttempt, AttemptRecords, Someone
<1> HIDE DEF a
<1>4. attempt' = [attempt EXCEPT ![f] = a] /\ attempt'[f] = a
  BY <1>1 DEF a, RefundsTypeOK
<1>5. RefundsTypeOK'
  <2>1. attempts' \in [Refunds -> Nat]
    BY DEF PrepareAttempt, RefundsTypeOK
  <2> QED BY <1>3, <1>4, <2>1 DEF PrepareAttempt, RefundsTypeOK, approvalVars
<1>6. RefundInv(f)'
  <2>1. OpenRefund(f) /\ ~attempt[f].sent
    BY DEF PrepareAttempt, RefundInv, AttemptIsOfOpenRefund, Active, OpenRefund
  <2>2. DestinationIsNewest(f)'
    BY <1>1, <1>3, <1>4 DEF PrepareAttempt, DestinationIsNewest, Current, RefundInv
  <2> QED BY <1>3, <1>4, <2>1, <2>2
        DEF PrepareAttempt, approvalVars, RefundInv, RequestAsks, OpenRequest, AttemptIsOfOpenRefund,
            Active, MoneySent, OpenRefund, ToldTheOutcome
<1>7. \A g \in Refunds \ {f} : SameRefund(g)
  BY <1>4 DEF PrepareAttempt, approvalVars, SameRefund, RefundsTypeOK
<1> QED BY <1>5, <1>6, <1>7, OneRefundChanges

(* The newest attempt of f moves and what it sent stays.                   *)
AttemptMoved(f, a) ==
  /\ attempt' = [attempt EXCEPT ![f] = a]
  /\ a \in AttemptRecords
  /\ a.sent = attempt[f].sent /\ a.dest = attempt[f].dest

(* While the refund is open its attempt goes from stage to stage: it was   *)
(* under way, and money that left keeps it under way.                      *)
LEMMA AttemptMovedInv ==
  ASSUME RefundsInv, NEW f \in Refunds, NEW a, AttemptMoved(f, a), Active(f),
         UNCHANGED <<workflowOn, capturedIntent, refund, dest, attempts, sync, told, sent, approvalVars>>,
         a.sent => a.stage \in {"executing", "submitted", "unknown"},
         a.stage = "submitted" => a.sent,
         a.stage # "confirmed"
  PROVE  RefundsInv'
<1> USE DEF RefundsInv
<1>1. attempt'[f] = a
  BY DEF AttemptMoved, RefundsTypeOK
<1>2. RefundsTypeOK'
  BY DEF AttemptMoved, RefundsTypeOK, approvalVars
<1>3. OpenRefund(f)
  BY DEF RefundInv, AttemptIsOfOpenRefund
<1>4. DestinationIsNewest(f)'
  <2>1. attempt'[f].dest \in Current(f) /\ dest[f][attempt'[f].dest] = "verified"
    BY <1>1 DEF AttemptMoved, RefundInv, DestinationIsNewest
  <2>2. Current(f)' = Current(f)
    BY DEF Current
  <2> QED BY <2>1, <2>2 DEF RefundInv, DestinationIsNewest
<1>5. RefundInv(f)'
  <2>1. AttemptIsOfOpenRefund(f)'
    BY <1>1, <1>3 DEF AttemptIsOfOpenRefund, OpenRefund
  <2>2. (RequestAsks(f) /\ MoneySent(f) /\ ToldTheOutcome(f))'
    BY <1>1, <1>3 DEF AttemptMoved, approvalVars, RefundInv, RequestAsks, OpenRequest, MoneySent, OpenRefund,
                      ToldTheOutcome
  <2> QED BY <1>4, <2>1, <2>2 DEF RefundInv
<1>6. \A g \in Refunds \ {f} : SameRefund(g)
  BY DEF AttemptMoved, approvalVars, SameRefund, RefundsTypeOK
<1> QED BY <1>2, <1>5, <1>6, OneRefundChanges

LEMMA ClaimRunsOutInv ==
  ASSUME RefundsInv, NEW f \in Refunds, LeaseRunsOut(f) \/ ExpireClaims(f)
  PROVE  RefundsInv'
<1> USE DEF RefundsInv
<1>1. attempt[f] \in AttemptRecords
  BY DEF RefundsTypeOK
<1>2. CASE LeaseRunsOut(f)
  <2> DEFINE a == [attempt[f] EXCEPT !.lease = FALSE]
  <2>1. a \in AttemptRecords /\ a.stage = attempt[f].stage /\ a.sent = attempt[f].sent /\ a.dest = attempt[f].dest
    BY <1>1 DEF AttemptRecords
  <2>2. attempt' = [attempt EXCEPT ![f] = a] /\ Active(f) /\ attempt[f].stage = "executing"
    BY <1>2 DEF LeaseRunsOut, SaveAttempt, Active
  <2> HIDE DEF a
  <2>3. AttemptMoved(f, a)
    BY <2>1, <2>2 DEF AttemptMoved
  <2> QED BY <1>2, <2>1, <2>2, <2>3, AttemptMovedInv DEF LeaseRunsOut, SaveAttempt
<1>3. CASE ExpireClaims(f)
  <2> DEFINE a == [attempt[f] EXCEPT !.stage = "unknown"]
  <2>1. a \in AttemptRecords /\ a.stage = "unknown" /\ a.sent = attempt[f].sent /\ a.dest = attempt[f].dest
    BY <1>1 DEF AttemptRecords
  <2>2. attempt' = [attempt EXCEPT ![f] = a] /\ Active(f)
    BY <1>3 DEF ExpireClaims, SaveAttempt, Active
  <2> HIDE DEF a
  <2>3. AttemptMoved(f, a)
    BY <2>1, <2>2 DEF AttemptMoved
  <2> QED BY <1>3, <2>1, <2>2, <2>3, AttemptMovedInv DEF ExpireClaims, SaveAttempt
<1> QED BY <1>2, <1>3

LEMMA OperatorInv ==
  ASSUME RefundsInv, NEW f \in Refunds, NEW actor \in Admins,
         Claim(f, actor) \/ CancelAttempt(f, actor) \/ SubmitAttempt(f, actor) \/ FailAttempt(f, actor)
  PROVE  RefundsInv'
<1> USE DEF RefundsInv
<1>1. attempt[f] \in AttemptRecords
  BY DEF RefundsTypeOK
<1>2. actor \in Someone
  BY DEF Someone
<1>3. CASE Claim(f, actor)
  <2> DEFINE a == [attempt[f] EXCEPT !.stage = "executing", !.claimedBy = actor, !.lease = TRUE]
  <2>1. a \in AttemptRecords /\ a.stage = "executing" /\ a.sent = attempt[f].sent /\ a.dest = attempt[f].dest
    BY <1>1, <1>2 DEF AttemptRecords
  <2>2. attempt' = [attempt EXCEPT ![f] = a] /\ Active(f)
    BY <1>3 DEF Claim, SaveAttempt, Active
  <2> HIDE DEF a
  <2>3. AttemptMoved(f, a)
    BY <2>1, <2>2 DEF AttemptMoved
  <2> QED BY <1>3, <2>1, <2>2, <2>3, AttemptMovedInv DEF Claim, SaveAttempt
<1>4. CASE CancelAttempt(f, actor)
  <2> DEFINE a == [attempt[f] EXCEPT !.stage = "voided"]
  <2>1. a \in AttemptRecords /\ a.stage = "voided" /\ a.sent = attempt[f].sent /\ a.dest = attempt[f].dest
    BY <1>1 DEF AttemptRecords
  <2>2. attempt' = [attempt EXCEPT ![f] = a] /\ Active(f)
    BY <1>4 DEF CancelAttempt, SaveAttempt, Active
  <2>3. ~attempt[f].sent
    BY <1>4 DEF CancelAttempt, RefundInv, AttemptIsOfOpenRefund
  <2> HIDE DEF a
  <2>4. AttemptMoved(f, a)
    BY <2>1, <2>2 DEF AttemptMoved
  <2> QED BY <1>4, <2>1, <2>2, <2>3, <2>4, AttemptMovedInv DEF CancelAttempt, SaveAttempt
<1>5. CASE SubmitAttempt(f, actor)
  <2> DEFINE a == [attempt[f] EXCEPT !.stage = "submitted", !.submittedBy = actor]
  <2>1. a \in AttemptRecords /\ a.stage = "submitted" /\ a.sent = attempt[f].sent /\ a.dest = attempt[f].dest
    BY <1>1, <1>2 DEF AttemptRecords
  <2>2. attempt' = [attempt EXCEPT ![f] = a] /\ Active(f) /\ attempt[f].sent
    BY <1>5 DEF SubmitAttempt, SaveAttempt, Active
  <2> HIDE DEF a
  <2>3. AttemptMoved(f, a)
    BY <2>1, <2>2 DEF AttemptMoved
  <2> QED BY <1>5, <2>1, <2>2, <2>3, AttemptMovedInv DEF SubmitAttempt, SaveAttempt
<1>6. CASE FailAttempt(f, actor)
  <2> DEFINE a == [attempt[f] EXCEPT !.stage = "failed"]
  <2>1. a \in AttemptRecords /\ a.stage = "failed" /\ a.sent = attempt[f].sent /\ a.dest = attempt[f].dest
    BY <1>1 DEF AttemptRecords
  <2>2. attempt' = [attempt EXCEPT ![f] = a] /\ Active(f) /\ ~attempt[f].sent
    BY <1>6 DEF FailAttempt, SaveAttempt, Active
  <2> HIDE DEF a
  <2>3. AttemptMoved(f, a)
    BY <2>1, <2>2 DEF AttemptMoved
  <2> QED BY <1>6, <2>1, <2>2, <2>3, AttemptMovedInv DEF FailAttempt, SaveAttempt
<1> QED BY <1>3, <1>4, <1>5, <1>6

(* The money leaves: the refund is open, and this attempt is its first to  *)
(* send anything.                                                          *)
LEMMA TransferMoneyInv ==
  ASSUME RefundsInv, NEW f \in Refunds, TransferMoney(f)
  PROVE  RefundsInv'
<1> DEFINE a == [attempt[f] EXCEPT !.sent = TRUE]
<1> USE DEF RefundsInv
<1>1. attempt[f] \in AttemptRecords
  BY DEF RefundsTypeOK
<1>2. a \in AttemptRecords /\ a.stage = "executing" /\ a.sent /\ a.dest = attempt[f].dest
  BY <1>1 DEF AttemptRecords, TransferMoney
<1>3. attempt' = [attempt EXCEPT ![f] = a]
  BY DEF TransferMoney
<1> HIDE DEF a
<1>4. attempt'[f] = a
  BY <1>3 DEF RefundsTypeOK
<1>5. Active(f) /\ OpenRefund(f) /\ sent[f] = 0
  BY DEF TransferMoney, Active, OpenRefund, RefundInv, AttemptIsOfOpenRefund, MoneySent
<1>6. sent' = [sent EXCEPT ![f] = 1]
  BY <1>5 DEF TransferMoney
<1>7. RefundsTypeOK'
  <2>1. sent' \in [Refunds -> Nat] /\ attempt' \in [Refunds -> AttemptRecords]
    BY <1>2, <1>3, <1>6 DEF RefundsTypeOK
  <2> QED BY <2>1 DEF TransferMoney, RefundsTypeOK, approvalVars
<1>8. DestinationIsNewest(f)'
  <2>1. attempt'[f].dest \in Current(f) /\ dest[f][attempt'[f].dest] = "verified"
    BY <1>2, <1>4, <1>5 DEF RefundInv, DestinationIsNewest
  <2>2. Current(f)' = Current(f) /\ dest' = dest
    BY DEF Current, TransferMoney
  <2> QED BY <2>1, <2>2 DEF RefundInv, DestinationIsNewest
<1>9. RefundInv(f)'
  <2>1. sent'[f] = 1
    BY <1>6 DEF RefundsTypeOK
  <2> QED BY <1>2, <1>4, <1>5, <1>8, <2>1
        DEF TransferMoney, approvalVars, RefundInv, RequestAsks, OpenRequest, AttemptIsOfOpenRefund,
            Active, MoneySent, OpenRefund, ToldTheOutcome
<1>10. \A g \in Refunds \ {f} : SameRefund(g)
  BY <1>3, <1>6 DEF TransferMoney, approvalVars, SameRefund, RefundsTypeOK
<1> QED BY <1>7, <1>9, <1>10, OneRefundChanges

LEMMA ConfirmAttemptInv ==
  ASSUME RefundsInv, NEW f \in Refunds, NEW actor \in Admins, ConfirmAttempt(f, actor)
  PROVE  RefundsInv'
<1> DEFINE a == [attempt[f] EXCEPT !.stage = "confirmed"]
<1> USE DEF RefundsInv
<1>1. attempt[f] \in AttemptRecords
  BY DEF RefundsTypeOK
<1>2. attempt[f].sent /\ OpenRefund(f) /\ Resolve(f, "succeeded")
  BY DEF ConfirmAttempt, RefundInv, AttemptIsOfOpenRefund
<1>3. a \in AttemptRecords /\ a.stage = "confirmed" /\ a.sent
  BY <1>1, <1>2 DEF AttemptRecords
<1>4. attempt' = [attempt EXCEPT ![f] = a]
  BY DEF ConfirmAttempt, SaveAttempt
<1> HIDE DEF a
<1>5. attempt'[f] = a
  BY <1>4 DEF RefundsTypeOK
<1>6. UNCHANGED <<workflowOn, dest, attempts, told, sent, request, review, preparers>>
  BY DEF ConfirmAttempt, SaveAttempt, approvalVars
<1>7. "succeeded" \in Resolved
  BY DEF Resolved
<1>8. RefundsTypeOK'
  BY <1>2, <1>3, <1>4, <1>6, <1>7, ResolveEffect DEF RefundsTypeOK
<1>9. RefundInv(f)'
  <2>1. refund'[f].status = "succeeded" /\ told'[f] = "none"
    BY <1>2, <1>6, <1>7, ResolveEffect
  <2>2. sent'[f] = 1
    BY <1>2, <1>6 DEF RefundInv, MoneySent
  <2>3. ~Active(f)'
    BY <1>3, <1>5 DEF Active
  <2>4. DestinationIsNewest(f)'
    BY <1>6, <2>3 DEF RefundInv, DestinationIsNewest, Current
  <2>5. AttemptIsOfOpenRefund(f)'
    BY <1>3, <1>5, <2>1, <2>3 DEF AttemptIsOfOpenRefund
  <2>6. MoneySent(f)' /\ ToldTheOutcome(f)'
    BY <2>1, <2>2 DEF MoneySent, ToldTheOutcome, Resolved
  <2>7. RequestAsks(f)'
    BY <1>6 DEF RefundInv, RequestAsks, OpenRequest
  <2> QED BY <2>4, <2>5, <2>6, <2>7 DEF RefundInv
<1>10. \A g \in Refunds \ {f} : SameRefund(g)
  <2> TAKE g \in Refunds \ {f}
  <2>1. refund'[g] = refund[g] /\ sync'[g] = sync[g]
    BY <1>2, <1>7, ResolveEffect
  <2>2. attempt'[g] = attempt[g]
    BY <1>4 DEF RefundsTypeOK
  <2> QED BY <1>6, <2>1, <2>2 DEF SameRefund
<1> QED BY <1>8, <1>9, <1>10, OneRefundChanges

-----------------------------------------------------------------------------
(* Delivery of the outcome.                                                *)

LEMMA DeliveryInv ==
  ASSUME RefundsInv, NEW f \in Refunds, Dispatch(f) \/ Requeue(f) \/ MarkRejected(f)
  PROVE  RefundsInv'
<1> USE DEF RefundsInv
<1>1. UNCHANGED syncOnly
  BY DEF Dispatch, Requeue, MarkRejected
<1>2. sync[f].state # "none" /\ refund[f].status \in Resolved
  BY DEF Dispatch, Requeue, MarkRejected, RefundInv, ToldTheOutcome
<1>3. /\ sync' \in [Refunds -> [state : {"none", "queued", "delivered", "review"}, tries : Nat]]
      /\ \A g \in Refunds \ {f} : sync'[g] = sync[g]
  <2>1. PICK s \in [state : {"none", "queued", "delivered", "review"}, tries : Nat] :
           sync' = [sync EXCEPT ![f] = s]
    <3>1. sync[f] \in [state : {"none", "queued", "delivered", "review"}, tries : Nat]
      BY DEF RefundsTypeOK
    <3>2. \A x \in {"queued", "delivered", "review"} :
            [sync[f] EXCEPT !.state = x] \in [state : {"none", "queued", "delivered", "review"}, tries : Nat]
      BY <3>1
    <3>3. \A x \in {"queued", "review"}, n \in Nat :
            [state |-> x, tries |-> n] \in [state : {"none", "queued", "delivered", "review"}, tries : Nat]
      OBVIOUS
    <3>4. sync[f].tries + 1 \in Nat
      BY <3>1
    <3>5. CASE Dispatch(f)
      BY <3>2, <3>3, <3>4, <3>5 DEF Dispatch
    <3>6. CASE Requeue(f) \/ MarkRejected(f)
      BY <3>2, <3>3, <3>6 DEF Requeue, MarkRejected
    <3> QED BY <3>5, <3>6
  <2> QED BY <2>1 DEF RefundsTypeOK
<1>4. /\ told' \in [Refunds -> {"none"} \cup Resolved]
      /\ told'[f] \in {"none", refund[f].status}
      /\ \A g \in Refunds \ {f} : told'[g] = told[g]
  BY <1>2 DEF Dispatch, Requeue, MarkRejected, RefundsTypeOK, RefundInv, ToldTheOutcome
<1>5. RefundsTypeOK'
  BY <1>1, <1>3, <1>4 DEF RefundsTypeOK, syncOnly, approvalVars
<1>6. RefundInv(f)'
  <2>1. DestinationIsNewest(f)'
    BY <1>1, SameDestination DEF syncOnly
  <2>2. ToldTheOutcome(f)'
    BY <1>1, <1>2, <1>4 DEF ToldTheOutcome, syncOnly
  <2> QED BY <1>1, <2>1, <2>2 DEF syncOnly, approvalVars, RefundInv, RequestAsks, OpenRequest,
                                 AttemptIsOfOpenRefund, Active, MoneySent, OpenRefund
<1>7. \A g \in Refunds \ {f} : SameRefund(g)
  BY <1>1, <1>3, <1>4 DEF SameRefund, syncOnly, approvalVars
<1> QED BY <1>5, <1>6, <1>7, OneRefundChanges

(* A step that leaves every refund alone.                                  *)
LEMMA NothingOfRefunds ==
  ASSUME RefundsInv, UNCHANGED <<capturedIntent, refund, dest, attempt, attempts, sync, told, sent, request, review>>,
         workflowOn' \in BOOLEAN, preparers' \subseteq Admins
  PROVE  RefundsInv'
<1>1. \A g \in Refunds : SameRefund(g)
  BY DEF SameRefund
<1>2. RefundsTypeOK'
  BY DEF RefundsInv, RefundsTypeOK
<1> QED BY <1>1, <1>2, SameRefundInv DEF RefundsInv

-----------------------------------------------------------------------------
LEMMA NextInv == RefundsInv /\ [RefundsNext]_workflowVars => RefundsInv'
<1> SUFFICES ASSUME RefundsInv, [RefundsNext]_workflowVars PROVE RefundsInv'
  OBVIOUS
<1>1. CASE Requests
  BY <1>1, RequestRefundInv, DraftResolutionInv, ExecuteInv, ApprovalStepInv DEF Requests, Resolved
<1>2. CASE Workflow
  <2>1. PICK f \in Manual :
          \/ SubmitDestination(f)
          \/ \E v \in 1..MaxVersions, verify \in BOOLEAN : DecideDestination(f, v, verify)
          \/ PrepareAttempt(f)
          \/ \E a \in Admins : Claim(f, a) \/ CancelAttempt(f, a) \/ SubmitAttempt(f, a)
          \/ \E a \in Admins : ConfirmAttempt(f, a) \/ FailAttempt(f, a)
          \/ TransferMoney(f) \/ LeaseRunsOut(f) \/ ExpireClaims(f)
    BY <1>2 DEF Workflow
  <2>2. f \in Refunds
    BY RefundsAssumption
  <2>3. CASE SubmitDestination(f) \/ PrepareAttempt(f) \/ TransferMoney(f)
    BY <2>2, <2>3, SubmitDestinationInv, PrepareAttemptInv, TransferMoneyInv
  <2>4. ASSUME NEW v \in 1..MaxVersions, NEW verify \in BOOLEAN, DecideDestination(f, v, verify) PROVE RefundsInv'
    BY <2>2, <2>4, DecideDestinationInv, RefundsAssumption
  <2>5. ASSUME NEW a \in Admins, Claim(f, a) \/ CancelAttempt(f, a) \/ SubmitAttempt(f, a) \/ FailAttempt(f, a)
        PROVE  RefundsInv'
    BY <2>2, <2>5, OperatorInv
  <2>6. ASSUME NEW a \in Admins, ConfirmAttempt(f, a) PROVE RefundsInv'
    BY <2>2, <2>6, ConfirmAttemptInv
  <2>7. CASE LeaseRunsOut(f) \/ ExpireClaims(f)
    BY <2>2, <2>7, ClaimRunsOutInv
  <2> QED BY <2>1, <2>3, <2>4, <2>5, <2>6, <2>7
<1>3. CASE Delivery
  BY <1>3, DeliveryInv DEF Delivery
<1>4. CASE SwitchWorkflow
  <2>1. workflowOn' \in BOOLEAN /\ preparers' \subseteq Admins
    BY <1>4 DEF SwitchWorkflow, RefundsInv, RefundsTypeOK, approvalVars
  <2> QED BY <1>4, <2>1, NothingOfRefunds DEF SwitchWorkflow, approvalVars
<1>5. ASSUME NEW a \in Admins, RevokePrepare(a), UNCHANGED refundVars PROVE RefundsInv'
  BY <1>5, NothingOfRefunds DEF RevokePrepare, refundVars, RefundsInv, RefundsTypeOK
<1>6. CASE UNCHANGED workflowVars
  BY <1>6, NothingOfRefunds DEF workflowVars, refundVars, approvalVars, RefundsInv, RefundsTypeOK
<1> QED BY <1>1, <1>2, <1>3, <1>4, <1>5, <1>6 DEF RefundsNext

(* The inductive invariant holds of every state of the refunds.            *)
THEOREM RefundsInvariant == RefundsSpec => []RefundsInv
<1> QED BY InitInv, NextInv, PTL DEF RefundsSpec

(* Refunds, destinations, attempts, deliveries and requests stay within    *)
(* their types.                                                            *)
THEOREM RefundsTypeCorrect == RefundsSpec => []RefundsTypeOK
<1>1. RefundsInv => RefundsTypeOK
  BY DEF RefundsInv
<1> QED BY <1>1, RefundsInvariant, PTL

(* A succeeded refund was paid exactly once, a failed one never, an open   *)
(* one at most once, and Order heard nothing else: however attempts, their *)
(* claims, the one-step resolution and the deliveries interleave.          *)
THEOREM OutcomeAlwaysMatchesMoney == RefundsSpec => []OutcomeMatchesMoney
<1>1. RefundsInv => OutcomeMatchesMoney
  BY DEF RefundsInv, RefundsTypeOK, RefundInv, MoneySent, ToldTheOutcome, OutcomeMatchesMoney, OpenRefund, Resolved
<1> QED BY <1>1, RefundsInvariant, PTL

(* From the claim on, an attempt goes to the newest, verified destination. *)
THEOREM DestinationAlwaysFrozen == RefundsSpec => []DestinationFrozen
<1>1. RefundsInv => DestinationFrozen
  BY DEF RefundsInv, RefundInv, DestinationIsNewest, DestinationFrozen, Active
<1> QED BY <1>1, RefundsInvariant, PTL

(* A resolution stands: no later attempt, request, claim or rejection by   *)
(* Order makes a resolved refund something else or moves its money again.  *)
THEOREM ResolutionStands ==
  RefundsSpec => [][\A f \in Refunds : refund[f].status \in Resolved =>
                      refund'[f].status = refund[f].status /\ sent'[f] = sent[f]]_workflowVars
<1> DEFINE Stays(f) == refund[f].status \in Resolved =>
                         refund'[f].status = refund[f].status /\ sent'[f] = sent[f]
<1>1. ASSUME RefundsInv, RefundsNext PROVE \A f \in Refunds : Stays(f)
  <2> USE <1>1 DEF RefundsInv
  <2>1. CASE UNCHANGED <<refund, sent>>
    BY <2>1
  <2>2. ASSUME NEW f \in Refunds, NEW amount \in 1..Capture, RequestRefund(f, amount)
        PROVE  \A g \in Refunds : Stays(g)
    BY <2>2 DEF RequestRefund, RefundsTypeOK, Resolved
  <2>3. ASSUME NEW f \in Refunds, OpenRefund(f), NEW outcome \in Resolved, Resolve(f, outcome),
               \A g \in Refunds \ {f} : sent'[g] = sent[g]
        PROVE  \A g \in Refunds : Stays(g)
    <3>1. ~Stays(f) => FALSE
      BY <2>3 DEF OpenRefund, Resolved
    <3>2. \A g \in Refunds \ {f} : refund'[g] = refund[g]
      BY <2>3, ResolveEffect
    <3> QED BY <2>3, <3>1, <3>2
  <2>4. ASSUME NEW f \in Refunds, execute(f) PROVE \A g \in Refunds : Stays(g)
    <3>1. OpenRefund(f) /\ request[f].outcome \in Resolved /\ Resolve(f, request[f].outcome)
      BY <2>4 DEF execute, ApproveRequest, OpenRequest, RefundInv, RequestAsks
    <3>2. \A g \in Refunds \ {f} : sent'[g] = sent[g]
      BY <2>4 DEF execute, RefundsTypeOK
    <3> QED BY <2>3, <3>1, <3>2
  <2>5. ASSUME NEW f \in Refunds, NEW a \in Admins, ConfirmAttempt(f, a) PROVE \A g \in Refunds : Stays(g)
    BY <2>3, <2>5 DEF ConfirmAttempt, SaveAttempt, Resolved
  <2>6. ASSUME NEW f \in Refunds, TransferMoney(f) PROVE \A g \in Refunds : Stays(g)
    <3>1. OpenRefund(f)
      BY <2>6 DEF TransferMoney, Active, RefundInv, AttemptIsOfOpenRefund
    <3> QED BY <2>6, <3>1 DEF TransferMoney, OpenRefund, Resolved, RefundsTypeOK
  <2>7. CASE Requests
    BY <2>1, <2>2, <2>4, <2>7 DEF Requests, DraftResolution, refundVars
  <2>8. CASE Workflow
    <3>1. ASSUME NEW f \in Manual, NEW a \in Admins, ConfirmAttempt(f, a) PROVE \A g \in Refunds : Stays(g)
      BY <2>5, <3>1, RefundsAssumption
    <3>2. ASSUME NEW f \in Manual, TransferMoney(f) PROVE \A g \in Refunds : Stays(g)
      BY <2>6, <3>2, RefundsAssumption
    <3> QED BY <2>1, <2>8, <3>1, <3>2
          DEF Workflow, SubmitDestination, DecideDestination, PrepareAttempt, Claim, CancelAttempt,
              SubmitAttempt, FailAttempt, LeaseRunsOut, ExpireClaims, SaveAttempt
  <2>9. CASE Delivery
    BY <2>1, <2>9 DEF Delivery, Dispatch, Requeue, MarkRejected, syncOnly
  <2>10. CASE SwitchWorkflow \/ UNCHANGED refundVars
    BY <2>1, <2>10 DEF SwitchWorkflow, refundVars
  <2> QED BY <1>1, <2>7, <2>8, <2>9, <2>10 DEF RefundsNext
<1>2. RefundsInv /\ [RefundsNext]_workflowVars => [\A f \in Refunds : Stays(f)]_workflowVars
  BY <1>1
<1> QED BY <1>2, RefundsInvariant, PTL DEF RefundsSpec
-----------------------------------------------------------------------------
(***************************************************************************)
(* The receipts of transfers.  Only an old file is ever listed by the      *)
(* cleanup, and an old file stays old, so a file that was uploaded or      *)
(* attached and has lost its object is an old one.                         *)
(***************************************************************************)
EvidenceStates == {"none", "uploading", "uploaded", "attached", "deleted"}

ListedAreOld == \A e \in Files : sweep[e] # "idle" => e \in old

LostAreOld == \A e \in Files : row[e] \in {"uploaded", "attached"} /\ e \notin object => e \in old

EvidenceInv ==
  /\ row \in [Files -> EvidenceStates]
  /\ sweep \in [Files -> EvidenceStates \cup {"idle"}]
  /\ ListedAreOld /\ LostAreOld

LEMMA InitHasEvidenceInv == EvidenceInit => EvidenceInv
BY DEF EvidenceInit, EvidenceInv, EvidenceStates, ListedAreOld, LostAreOld

LEMMA NextKeepsEvidenceInv == EvidenceInv /\ [EvidenceNext]_evidenceVars => EvidenceInv'
<1> SUFFICES ASSUME EvidenceInv, [EvidenceNext]_evidenceVars PROVE EvidenceInv'
  OBVIOUS
<1> USE DEF EvidenceInv, EvidenceStates, ListedAreOld, LostAreOld
<1>1. ASSUME NEW e \in Files, UploadStarts(e) \/ UploadPut(e) \/ DayPasses(e) PROVE EvidenceInv'
  BY <1>1 DEF UploadStarts, UploadPut, DayPasses
<1>2. ASSUME NEW e \in Files, UploadRecorded(e) PROVE EvidenceInv'
  BY <1>2 DEF UploadRecorded
<1>3. ASSUME NEW e \in Files, OrphanEvidence(e) PROVE EvidenceInv'
  BY <1>3 DEF OrphanEvidence
<1>4. ASSUME NEW e \in Files, CleanupDeletes(e) PROVE EvidenceInv'
  BY <1>4 DEF CleanupDeletes
<1>5. ASSUME NEW e \in Files, SetEvidenceState(e) PROVE EvidenceInv'
  BY <1>5 DEF SetEvidenceState
<1>6. ASSUME NEW named \in SUBSET Files, AttachEvidence(named) PROVE EvidenceInv'
  BY <1>6 DEF AttachEvidence
<1>7. CASE AttemptMoves \/ UNCHANGED evidenceVars
  BY <1>7 DEF AttemptMoves, evidenceVars
<1> QED BY <1>1, <1>2, <1>3, <1>4, <1>5, <1>6, <1>7 DEF EvidenceNext, Cleanup

(* A transfer's receipt that was attached while its upload was fresh keeps *)
(* its object, whatever the cleanup had listed and however slow it is      *)
(* (CleanupEvidence).                                                      *)
THEOREM FreshEvidenceAlwaysKept == EvidenceSpec => []FreshEvidenceIsKept
<1>1. EvidenceInv => FreshEvidenceIsKept
  BY DEF EvidenceInv, LostAreOld, FreshEvidenceIsKept
<1> QED BY <1>1, InitHasEvidenceInv, NextKeepsEvidenceInv, PTL DEF EvidenceSpec

-----------------------------------------------------------------------------

(***************************************************************************)
(* Payment intents and provider receipts, for any number of intents,       *)
(* requests, workers and receipts.  A captured intent has a paid link      *)
(* because every way to capture it goes through something that already     *)
(* knew of the payment: a receipt of the provider, or a process that was   *)
(* told so and is about to write one.  The invariant says that of both,    *)
(* and that a paid link stays paid.                                        *)
(***************************************************************************)
Pcs == {"idle", "find", "create", "link", "mark", "reject", "query", "cancel", "close", "record"}

\* The steps of a process that are about an intent.
AboutIntent == Pcs \ {"idle", "find", "create"}

Ages == {"fresh", "stale", "old"}
IntentStates == {"none", "creating", "pending", "captured", "failed", "expired"}
ReceiptStates == {"none", "received", "processed", "rejected"}

ProcRecords == [pc : Pcs, intent : Intents \cup {NoIntent},
                status : {"none", "creating", "pending"}, old : BOOLEAN]

\* A process that acts on an intent has one.
StepsHaveIntents == \A p \in Processes : proc[p].pc \in AboutIntent => proc[p].intent \in Intents

\* A process about to write a receipt was told of a paid link.
FindingsArePaid == \A p \in Processes : proc[p].pc = "record" => link[proc[p].intent] = "paid"

\* A receipt of a payment in full is about a paid link.
ReceiptsArePaid ==
    \A i \in Intents : \A kind \in {"succeeded", "query"} : receipt[<<i, kind>>] # "none" => link[i] = "paid"

IntentsInv == TypeOK /\ StepsHaveIntents /\ FindingsArePaid /\ ReceiptsArePaid /\ CaptureIsReal

\* What no step does to a link, and what no step but a receipt's does to a capture.
PaidStays == \A i \in Intents : link[i] = "paid" => link'[i] = "paid"
CapturesStay == \A i \in Intents : intent'[i] = "captured" <=> intent[i] = "captured"

----------------------------------------------------------------------------
(* Processes.                                                              *)

(* A process that moves to a legal record keeps what is said of processes. *)
LEMMA ProcessMoves ==
    ASSUME IntentsInv, PaidStays,
           NEW p \in Processes, NEW rec \in ProcRecords,
           rec.pc \in AboutIntent => rec.intent \in Intents,
           rec.pc = "record" => link'[rec.intent] = "paid",
           proc' = [proc EXCEPT ![p] = rec]
    PROVE  proc' \in [Processes -> ProcRecords] /\ StepsHaveIntents' /\ FindingsArePaid'
  <1>1. proc \in [Processes -> ProcRecords]
    BY DEF IntentsInv, TypeOK, ProcRecords, Pcs
  <1>2. proc' \in [Processes -> ProcRecords]
    BY <1>1
  <1>3. StepsHaveIntents'
    BY <1>1 DEF IntentsInv, StepsHaveIntents
  <1>4. ASSUME NEW q \in Processes, proc'[q].pc = "record"
        PROVE  link'[proc'[q].intent] = "paid"
    <2>1. CASE q = p
      BY <1>1, <1>4, <2>1
    <2>2. CASE q # p
      <3>1. proc'[q] = proc[q]
        BY <1>1, <2>2
      <3>2. proc[q].intent \in Intents /\ link[proc[q].intent] = "paid"
        BY <1>4, <3>1 DEF IntentsInv, StepsHaveIntents, FindingsArePaid, AboutIntent, Pcs
      <3>. QED BY <3>1, <3>2 DEF PaidStays
    <2>. QED BY <2>1, <2>2
  <1>. QED BY <1>2, <1>3, <1>4 DEF FindingsArePaid

(* Goto keeps the process's intent and forgets what it remembered of it.   *)
LEMMA GotoMoves ==
    ASSUME IntentsInv, PaidStays,
           NEW p \in Processes, NEW pc \in Pcs, Goto(p, pc),
           pc \in AboutIntent => proc[p].intent \in Intents,
           pc = "record" => link'[proc[p].intent] = "paid"
    PROVE  proc' \in [Processes -> ProcRecords] /\ StepsHaveIntents' /\ FindingsArePaid'
  <1> DEFINE rec == [Idle EXCEPT !.pc = pc, !.intent = proc[p].intent]
  <1>1. proc[p] \in ProcRecords
    BY DEF IntentsInv, TypeOK, ProcRecords, Pcs
  <1>2. rec \in ProcRecords /\ rec.pc = pc /\ rec.intent = proc[p].intent
    BY <1>1 DEF Idle, ProcRecords
  <1>3. proc' = [proc EXCEPT ![p] = rec]
    BY DEF Goto
  <1> HIDE DEF rec
  <1>. QED BY <1>2, <1>3, ProcessMoves

(* Return, a request answered, a round over or a process that died.        *)
LEMMA ReturnMoves ==
    ASSUME IntentsInv, PaidStays, NEW p \in Processes, Return(p)
    PROVE  proc' \in [Processes -> ProcRecords] /\ StepsHaveIntents' /\ FindingsArePaid'
  <1>1. Idle \in ProcRecords /\ Idle.pc \notin AboutIntent /\ Idle.pc # "record"
    BY DEF Idle, ProcRecords, Pcs, AboutIntent
  <1>2. proc' = [proc EXCEPT ![p] = Idle]
    BY DEF Return
  <1>. QED BY <1>1, <1>2, ProcessMoves

(* What a process remembers of an open intent before it asks the provider. *)
LEMMA SnapshotMoves ==
    ASSUME IntentsInv, PaidStays, NEW p \in Processes, NEW i \in Intents,
           Open(intent[i]), Snapshot(p, i)
    PROVE  proc' \in [Processes -> ProcRecords] /\ StepsHaveIntents' /\ FindingsArePaid'
  <1> DEFINE rec == [pc |-> "query", intent |-> i, status |-> intent[i], old |-> age[i] = "old"]
  <1>1. rec \in ProcRecords /\ rec.pc = "query" /\ rec.intent = i
    <2>1. intent[i] \in {"none", "creating", "pending"} /\ (age[i] = "old") \in BOOLEAN
      BY DEF Open
    <2>. QED BY <2>1 DEF ProcRecords, Pcs
  <1>2. proc' = [proc EXCEPT ![p] = rec]
    BY DEF Snapshot
  <1> HIDE DEF rec
  <1>. QED BY <1>1, <1>2, ProcessMoves

----------------------------------------------------------------------------
(* payment_intents: no statement of a process makes or ends a capture.     *)

LEMMA StatementsKeepCaptures ==
    ASSUME TypeOK, NEW i \in Intents, CreateOperation(i) \/ MarkLinked(i) \/ Close(i)
    PROVE  /\ intent' \in [Intents -> IntentStates]
           /\ age' \in [Intents -> Ages]
           /\ CapturesStay
  <1> USE DEF TypeOK, IntentStates, Ages, CapturesStay
  <1>1. CASE CreateOperation(i)
    BY <1>1 DEF CreateOperation
  <1>2. CASE MarkLinked(i)
    BY <1>2 DEF MarkLinked
  <1>3. CASE Close(i)
    BY <1>3 DEF Close, Open
  <1>. QED BY <1>1, <1>2, <1>3

(* What is left to show of a step that writes no receipt.                  *)
LEMMA StepWithoutReceipt ==
    ASSUME IntentsInv, PaidStays, CapturesStay, UNCHANGED receipt,
           legacy' \subseteq Intents, deadline' \in BOOLEAN,
           intent' \in [Intents -> IntentStates], age' \in [Intents -> Ages],
           link' \in [Intents -> {"none", "open", "closed", "paid"}],
           inflight' \subseteq Intents, shown' \subseteq Intents,
           proc' \in [Processes -> ProcRecords], StepsHaveIntents', FindingsArePaid'
    PROVE  IntentsInv'
  <1>1. TypeOK'
    BY DEF IntentsInv, TypeOK, IntentStates, Ages, ProcRecords, Pcs
  <1>2. ReceiptsArePaid'
    BY DEF IntentsInv, ReceiptsArePaid, PaidStays
  <1>3. CaptureIsReal'
    BY DEF IntentsInv, CaptureIsReal, PaidStays, CapturesStay
  <1>. QED BY <1>1, <1>2, <1>3 DEF IntentsInv

----------------------------------------------------------------------------
(* The steps of a request and of the reconciler.                           *)

(* What StepWithoutReceipt asks of a step that leaves payment_intents, the *)
(* provider and the receipts alone.                                        *)
LEMMA OnlyProcessMoves ==
    ASSUME IntentsInv, UNCHANGED <<world, intent, age, provider, receipt>>, shown' \subseteq Intents,
           proc' \in [Processes -> ProcRecords], StepsHaveIntents', FindingsArePaid'
    PROVE  IntentsInv'
  <1>1. PaidStays /\ CapturesStay
    BY DEF PaidStays, CapturesStay, provider
  <1>2. /\ legacy' \subseteq Intents /\ deadline' \in BOOLEAN
        /\ intent' \in [Intents -> IntentStates] /\ age' \in [Intents -> Ages]
        /\ link' \in [Intents -> {"none", "open", "closed", "paid"}] /\ inflight' \subseteq Intents
    BY DEF IntentsInv, TypeOK, IntentStates, Ages, world, provider
  <1>. QED BY <1>1, <1>2, StepWithoutReceipt

(* ... of one that changes payment_intents and leaves the provider alone.  *)
LEMMA StatementMoves ==
    ASSUME IntentsInv, UNCHANGED <<world, provider, receipt>>, shown' \subseteq Intents, CapturesStay,
           intent' \in [Intents -> IntentStates], age' \in [Intents -> Ages],
           proc' \in [Processes -> ProcRecords], StepsHaveIntents', FindingsArePaid'
    PROVE  IntentsInv'
  <1>1. PaidStays
    BY DEF PaidStays, provider
  <1>2. /\ legacy' \subseteq Intents /\ deadline' \in BOOLEAN
        /\ link' \in [Intents -> {"none", "open", "closed", "paid"}] /\ inflight' \subseteq Intents
    BY DEF IntentsInv, TypeOK, world, provider
  <1>. QED BY <1>1, <1>2, StepWithoutReceipt

(* ... and of one at the provider that leaves payment_intents alone but    *)
(* for its clock, and never takes back a payment.                          *)
LEMMA ProviderMoves ==
    ASSUME IntentsInv, UNCHANGED <<legacy, intent, receipt>>, deadline' \in BOOLEAN, shown' \subseteq Intents,
           inflight' \subseteq Intents, age' \in [Intents -> Ages],
           link' \in [Intents -> {"none", "open", "closed", "paid"}], PaidStays,
           proc' \in [Processes -> ProcRecords], StepsHaveIntents', FindingsArePaid'
    PROVE  IntentsInv'
  <1>1. CapturesStay
    BY DEF CapturesStay
  <1>2. legacy' \subseteq Intents /\ intent' \in [Intents -> IntentStates]
    BY DEF IntentsInv, TypeOK, IntentStates
  <1>. QED BY <1>1, <1>2, StepWithoutReceipt

(* What a step may take from the invariant about the process it moves.     *)
LEMMA ProcessHasIntent ==
    ASSUME IntentsInv, NEW p \in Processes, NEW pc \in AboutIntent, At(p, pc)
    PROVE  proc[p].intent \in Intents
  BY DEF IntentsInv, StepsHaveIntents, At

LEMMA RequestStartsKeepsInv ==
    ASSUME IntentsInv, NEW p \in Processes, RequestStarts(p)
    PROVE  IntentsInv'
  <1>1. PaidStays /\ shown' \subseteq Intents
    BY DEF RequestStarts, PaidStays, provider, IntentsInv, TypeOK
  <1>2. "find" \in Pcs /\ "find" \notin AboutIntent /\ Goto(p, "find")
    BY DEF RequestStarts, Pcs, AboutIntent
  <1>3. proc' \in [Processes -> ProcRecords] /\ StepsHaveIntents' /\ FindingsArePaid'
    BY <1>1, <1>2, GotoMoves
  <1>. QED BY <1>1, <1>3, OnlyProcessMoves DEF RequestStarts

LEMMA RequestFindsKeepsInv ==
    ASSUME IntentsInv, NEW p \in Processes, RequestFinds(p)
    PROVE  IntentsInv'
  <1>1. PaidStays /\ shown' \subseteq Intents
    BY DEF RequestFinds, PaidStays, provider, IntentsInv, TypeOK, FindOpenByOrderID
  <1>2. \/ Goto(p, "create")
        \/ Return(p)
        \/ \E i \in Intents : Open(intent[i]) /\ Snapshot(p, i)
    BY DEF RequestFinds, FindOpenByOrderID
  <1>3. proc' \in [Processes -> ProcRecords] /\ StepsHaveIntents' /\ FindingsArePaid'
    <2>1. CASE Goto(p, "create")
      <3>1. "create" \in Pcs /\ "create" \notin AboutIntent
        BY DEF Pcs, AboutIntent
      <3>. QED BY <1>1, <2>1, <3>1, GotoMoves
    <2>2. CASE Return(p)
      BY <1>1, <2>2, ReturnMoves
    <2>3. CASE \E i \in Intents : Open(intent[i]) /\ Snapshot(p, i)
      BY <1>1, <2>3, SnapshotMoves
    <2>. QED BY <1>2, <2>1, <2>2, <2>3
  <1>. QED BY <1>1, <1>3, OnlyProcessMoves DEF RequestFinds

LEMMA RequestCreatesKeepsInv ==
    ASSUME IntentsInv, NEW p \in Processes, RequestCreates(p)
    PROVE  IntentsInv'
  <1>1. PaidStays /\ shown' \subseteq Intents
    BY DEF RequestCreates, PaidStays, provider, IntentsInv, TypeOK
  <1>2. CASE /\ FindOpenByOrderID # {} /\ Return(p) /\ UNCHANGED <<intent, age>>
    <2>1. proc' \in [Processes -> ProcRecords] /\ StepsHaveIntents' /\ FindingsArePaid'
      BY <1>1, <1>2, ReturnMoves
    <2>. QED BY <1>1, <1>2, <2>1, OnlyProcessMoves DEF RequestCreates
  <1>3. ASSUME NEW i \in Intents, CreateOperation(i),
               proc' = [proc EXCEPT ![p].pc = "link", ![p].intent = i]
        PROVE  IntentsInv'
    <2> DEFINE rec == [proc[p] EXCEPT !.pc = "link", !.intent = i]
    <2>1. proc \in [Processes -> ProcRecords]
      BY DEF IntentsInv, TypeOK, ProcRecords, Pcs
    <2>2. rec \in ProcRecords /\ rec.pc = "link" /\ rec.intent = i
      BY <2>1 DEF ProcRecords, Pcs
    <2>3. proc' = [proc EXCEPT ![p] = rec]
      BY <1>3, <2>1
    <2> HIDE DEF rec
    <2>4. proc' \in [Processes -> ProcRecords] /\ StepsHaveIntents' /\ FindingsArePaid'
      BY <1>1, <2>2, <2>3, ProcessMoves
    <2>5. intent' \in [Intents -> IntentStates] /\ age' \in [Intents -> Ages] /\ CapturesStay
      BY <1>3, StatementsKeepCaptures DEF IntentsInv
    <2>. QED BY <1>1, <2>4, <2>5, StatementMoves DEF RequestCreates
  <1>. QED BY <1>2, <1>3 DEF RequestCreates

LEMMA ProviderCreatesKeepsInv ==
    ASSUME IntentsInv, NEW p \in Processes, ProviderCreates(p)
    PROVE  IntentsInv'
  <1> DEFINE i == proc[p].intent
  <1>1. i \in Intents
    BY ProcessHasIntent DEF ProviderCreates, AboutIntent, Pcs
  <1>2. PaidStays
    BY <1>1 DEF ProviderCreates, PaidStays, provider, IntentsInv, TypeOK
  <1>3. Goto(p, "mark") \/ Goto(p, "reject") \/ Return(p)
    BY DEF ProviderCreates
  <1>4. /\ link' \in [Intents -> {"none", "open", "closed", "paid"}]
        /\ inflight' \subseteq Intents /\ age' \in [Intents -> Ages] /\ shown' \subseteq Intents
        /\ deadline' \in BOOLEAN /\ UNCHANGED <<legacy, intent, receipt>>
    BY <1>1 DEF ProviderCreates, provider, world, IntentsInv, TypeOK, Ages
  <1>5. proc' \in [Processes -> ProcRecords] /\ StepsHaveIntents' /\ FindingsArePaid'
    <2>1. "mark" \in Pcs /\ "reject" \in Pcs /\ "mark" # "record" /\ "reject" # "record"
      BY DEF Pcs
    <2>. QED BY <1>1, <1>2, <1>3, <2>1, GotoMoves, ReturnMoves
  <1>. QED BY <1>2, <1>4, <1>5, ProviderMoves

LEMMA LinkRecordedKeepsInv ==
    ASSUME IntentsInv, NEW p \in Processes, LinkRecorded(p)
    PROVE  IntentsInv'
  <1>1. proc[p].intent \in Intents
    BY ProcessHasIntent DEF LinkRecorded, AboutIntent, Pcs
  <1>2. PaidStays /\ shown' \subseteq Intents
    BY <1>1 DEF LinkRecorded, PaidStays, provider, IntentsInv, TypeOK
  <1>3. proc' \in [Processes -> ProcRecords] /\ StepsHaveIntents' /\ FindingsArePaid'
    BY <1>2, ReturnMoves DEF LinkRecorded
  <1>4. intent' \in [Intents -> IntentStates] /\ age' \in [Intents -> Ages] /\ CapturesStay
    BY <1>1, StatementsKeepCaptures DEF LinkRecorded, IntentsInv
  <1>. QED BY <1>2, <1>3, <1>4, StatementMoves DEF LinkRecorded

LEMMA LinkRejectedKeepsInv ==
    ASSUME IntentsInv, NEW p \in Processes, LinkRejected(p)
    PROVE  IntentsInv'
  <1>1. proc[p].intent \in Intents
    BY ProcessHasIntent DEF LinkRejected, AboutIntent, Pcs
  <1>2. PaidStays /\ shown' \subseteq Intents
    BY DEF LinkRejected, PaidStays, provider, IntentsInv, TypeOK
  <1>3. proc' \in [Processes -> ProcRecords] /\ StepsHaveIntents' /\ FindingsArePaid'
    BY <1>2, ReturnMoves DEF LinkRejected
  <1>4. intent' \in [Intents -> IntentStates] /\ age' \in [Intents -> Ages] /\ CapturesStay
    BY <1>1, StatementsKeepCaptures DEF LinkRejected, IntentsInv
  <1>. QED BY <1>2, <1>3, <1>4, StatementMoves DEF LinkRejected

LEMMA ReconcileKeepsInv ==
    ASSUME IntentsInv, NEW p \in Processes, Reconcile(p)
    PROVE  IntentsInv'
  <1>1. PaidStays /\ shown' \subseteq Intents
    BY DEF Reconcile, PaidStays, provider, IntentsInv, TypeOK
  <1>2. \E i \in Intents : Open(intent[i]) /\ Snapshot(p, i)
    BY DEF Reconcile, ListForReconciliation, Open
  <1>3. proc' \in [Processes -> ProcRecords] /\ StepsHaveIntents' /\ FindingsArePaid'
    BY <1>1, <1>2, SnapshotMoves
  <1>. QED BY <1>1, <1>3, OnlyProcessMoves DEF Reconcile

LEMMA ResolveLegacyKeepsInv ==
    ASSUME IntentsInv, NEW p \in Processes, ResolveLegacy(p)
    PROVE  IntentsInv'
  <1>1. PaidStays /\ shown' \subseteq Intents
    BY DEF ResolveLegacy, PaidStays, provider, IntentsInv, TypeOK
  <1>2. Goto(p, "close") \/ Return(p)
    BY DEF ResolveLegacy
  <1>3. proc[p].intent \in Intents /\ "close" \in Pcs /\ "close" # "record"
    BY ProcessHasIntent DEF ResolveLegacy, AboutIntent, Pcs
  <1>4. proc' \in [Processes -> ProcRecords] /\ StepsHaveIntents' /\ FindingsArePaid'
    BY <1>1, <1>2, <1>3, GotoMoves, ReturnMoves
  <1>. QED BY <1>1, <1>4, OnlyProcessMoves DEF ResolveLegacy

(* The one step that learns of a payment: it read the link.                *)
LEMMA QueryAnswersKeepsInv ==
    ASSUME IntentsInv, NEW p \in Processes, QueryAnswers(p)
    PROVE  IntentsInv'
  <1>1. PaidStays /\ shown' \subseteq Intents
    BY DEF QueryAnswers, PaidStays, provider, IntentsInv, TypeOK
  <1>2. proc[p].intent \in Intents
    BY ProcessHasIntent DEF QueryAnswers, AboutIntent, Pcs
  <1>3. PICK pc \in {"link", "close", "record", "cancel"} :
          Goto(p, pc) /\ (pc = "record" => link[proc[p].intent] = "paid")
    BY DEF QueryAnswers
  <1>4. pc \in Pcs /\ (pc = "record" => link'[proc[p].intent] = "paid")
    BY <1>1, <1>2, <1>3 DEF Pcs, PaidStays
  <1>5. proc' \in [Processes -> ProcRecords] /\ StepsHaveIntents' /\ FindingsArePaid'
    BY <1>1, <1>2, <1>3, <1>4, GotoMoves
  <1>. QED BY <1>1, <1>5, OnlyProcessMoves DEF QueryAnswers

(* A cancellation, sent on a guess or on an answer, closes an open link.   *)
LEMMA CancellationKeepsInv ==
    ASSUME IntentsInv, NEW p \in Processes, QueryFails(p) \/ ProviderCancels(p)
    PROVE  IntentsInv'
  <1>1. proc[p].intent \in Intents
    BY ProcessHasIntent DEF QueryFails, ProviderCancels, AboutIntent, Pcs
  <1>2. \/ link' = [link EXCEPT ![proc[p].intent] = IF @ = "open" THEN "closed" ELSE @]
        \/ UNCHANGED link
    BY DEF QueryFails, ProviderCancels
  <1>3. PaidStays /\ link' \in [Intents -> {"none", "open", "closed", "paid"}]
    BY <1>1, <1>2 DEF PaidStays, IntentsInv, TypeOK
  <1>4. /\ inflight' \subseteq Intents /\ age' \in [Intents -> Ages] /\ shown' \subseteq Intents
        /\ deadline' \in BOOLEAN /\ UNCHANGED <<legacy, intent, receipt>>
    BY DEF QueryFails, ProviderCancels, world, IntentsInv, TypeOK, Ages
  <1>5. Goto(p, "close") \/ Return(p)
    BY DEF QueryFails, ProviderCancels
  <1>6. proc' \in [Processes -> ProcRecords] /\ StepsHaveIntents' /\ FindingsArePaid'
    <2>1. "close" \in Pcs /\ "close" # "record"
      BY DEF Pcs
    <2>. QED BY <1>1, <1>3, <1>5, <2>1, GotoMoves, ReturnMoves
  <1>. QED BY <1>3, <1>4, <1>6, ProviderMoves

LEMMA ResolveClosesKeepsInv ==
    ASSUME IntentsInv, NEW p \in Processes, ResolveCloses(p)
    PROVE  IntentsInv'
  <1> DEFINE rec == [Idle EXCEPT !.pc = "create"]
  <1>1. proc[p].intent \in Intents
    BY ProcessHasIntent DEF ResolveCloses, AboutIntent, Pcs
  <1>2. PaidStays /\ shown' \subseteq Intents
    BY DEF ResolveCloses, PaidStays, provider, IntentsInv, TypeOK
  <1>3. rec \in ProcRecords /\ rec.pc \notin AboutIntent /\ rec.pc # "record"
    BY DEF Idle, ProcRecords, Pcs, AboutIntent
  <1>4. proc' = [proc EXCEPT ![p] = rec] \/ Return(p)
    BY DEF ResolveCloses
  <1> HIDE DEF rec
  <1>5. proc' \in [Processes -> ProcRecords] /\ StepsHaveIntents' /\ FindingsArePaid'
    BY <1>2, <1>3, <1>4, ProcessMoves, ReturnMoves
  <1>6. intent' \in [Intents -> IntentStates] /\ age' \in [Intents -> Ages] /\ CapturesStay
    BY <1>1, StatementsKeepCaptures DEF ResolveCloses, IntentsInv
  <1>. QED BY <1>2, <1>5, <1>6, StatementMoves DEF ResolveCloses

LEMMA CrashKeepsInv ==
    ASSUME IntentsInv, NEW p \in Processes, Crash(p)
    PROVE  IntentsInv'
  <1>1. PaidStays /\ shown' \subseteq Intents
    BY DEF Crash, PaidStays, provider, IntentsInv, TypeOK
  <1>2. proc' \in [Processes -> ProcRecords] /\ StepsHaveIntents' /\ FindingsArePaid'
    BY <1>1, ReturnMoves DEF Crash
  <1>. QED BY <1>1, <1>2, OnlyProcessMoves DEF Crash

----------------------------------------------------------------------------
(* Receipts, the provider and the clock.                                   *)

(* The reconciler writes down a payment it was told of.                    *)
LEMMA RecordFindingKeepsInv ==
    ASSUME IntentsInv, NEW p \in Processes, RecordFinding(p)
    PROVE  IntentsInv'
  <1> DEFINE i == proc[p].intent
  <1>1. i \in Intents /\ link[i] = "paid"
    BY ProcessHasIntent DEF RecordFinding, AboutIntent, Pcs, IntentsInv, FindingsArePaid, At
  <1>2. /\ link' = link /\ intent' = intent /\ age' = age
        /\ UNCHANGED <<legacy, deadline, inflight, shown>> /\ PaidStays
    BY DEF RecordFinding, provider, world, PaidStays
  <1>3. PICK kind \in {"succeeded", "query"} :
          receipt' = [receipt EXCEPT ![<<i, kind>>] = IF @ = "none" THEN "received" ELSE @]
    BY DEF RecordFinding
  <1>4. receipt' \in [Events -> ReceiptStates]
    BY <1>1, <1>3 DEF IntentsInv, TypeOK, ReceiptStates, Events
  <1>5. ReceiptsArePaid'
    <2>1. ASSUME NEW j \in Intents, NEW k \in {"succeeded", "query"}, receipt'[<<j, k>>] # "none", j # i
          PROVE  receipt[<<j, k>>] # "none"
      BY <1>1, <1>3, <2>1 DEF IntentsInv, TypeOK, Events
    <2>. QED BY <1>1, <1>2, <2>1 DEF IntentsInv, ReceiptsArePaid
  <1>6. proc' \in [Processes -> ProcRecords] /\ StepsHaveIntents' /\ FindingsArePaid'
    BY <1>2, ReturnMoves DEF RecordFinding
  <1>7. TypeOK'
    BY <1>2, <1>4, <1>6 DEF IntentsInv, TypeOK, ReceiptStates, ProcRecords, Pcs
  <1>8. CaptureIsReal'
    BY <1>2 DEF IntentsInv, CaptureIsReal
  <1>. QED BY <1>5, <1>6, <1>7, <1>8 DEF IntentsInv

(* What StepWithoutReceipt and the receipts' steps leave of processes.     *)
LEMMA ProcessesRest ==
    ASSUME IntentsInv, PaidStays, UNCHANGED proc
    PROVE  proc' \in [Processes -> ProcRecords] /\ StepsHaveIntents' /\ FindingsArePaid'
  <1>1. proc' \in [Processes -> ProcRecords] /\ StepsHaveIntents'
    BY DEF IntentsInv, TypeOK, StepsHaveIntents, ProcRecords, Pcs
  <1>2. FindingsArePaid'
    BY DEF IntentsInv, StepsHaveIntents, FindingsArePaid, PaidStays, AboutIntent, Pcs
  <1>. QED BY <1>1, <1>2

LEMMA ProcessWebhookKeepsInv ==
    ASSUME IntentsInv, NEW e \in Events, ProcessWebhook(e)
    PROVE  IntentsInv'
  <1>1. /\ link' = link /\ intent' = intent
        /\ UNCHANGED <<legacy, deadline, age, inflight, shown, proc>> /\ PaidStays
    BY DEF ProcessWebhook, provider, world, PaidStays
  <1>2. receipt' = [receipt EXCEPT ![e] = "received"] /\ (e[2] \in {"succeeded", "query"} => link[e[1]] = "paid")
    BY DEF ProcessWebhook, Reported
  <1>3. TypeOK' /\ StepsHaveIntents' /\ FindingsArePaid'
    BY <1>1, <1>2, ProcessesRest DEF IntentsInv, TypeOK
  <1>4. ReceiptsArePaid'
    <2>1. ASSUME NEW i \in Intents, NEW kind \in {"succeeded", "query"}, receipt'[<<i, kind>>] # "none"
          PROVE  link'[i] = "paid"
      <3>1. CASE <<i, kind>> = e
        BY <1>1, <1>2, <3>1
      <3>2. CASE <<i, kind>> # e
        <4>1. <<i, kind>> \in Events
          BY DEF Events
        <4>2. receipt[<<i, kind>>] # "none"
          BY <1>2, <2>1, <3>2, <4>1 DEF IntentsInv, TypeOK
        <4>. QED BY <1>1, <4>2 DEF IntentsInv, ReceiptsArePaid
      <3>. QED BY <3>1, <3>2
    <2>. QED BY <2>1 DEF ReceiptsArePaid
  <1>5. CaptureIsReal'
    BY <1>1 DEF IntentsInv, CaptureIsReal
  <1>. QED BY <1>3, <1>4, <1>5 DEF IntentsInv

(* A receipt decides one intent, and captures it only when it is about a   *)
(* payment in full; whatever it decides, it leaves a capture alone.        *)
LEMMA ReceiptDecides ==
    ASSUME TypeOK, NEW e \in Events
    PROVE  /\ e[1] \in Intents
           /\ DecideReceipt(e)[1] \in {"processed", "rejected"}
           /\ DecideReceipt(e)[2] \in IntentStates
           /\ DecideReceipt(e)[2] = "captured" => intent[e[1]] = "captured" \/ e[2] \in {"succeeded", "query"}
           /\ intent[e[1]] = "captured" => DecideReceipt(e)[2] = "captured"
  <1>1. e[1] \in Intents /\ e[2] \in {"succeeded", "failed", "mismatch", "query"}
    BY DEF Events
  <1>2. intent[e[1]] \in IntentStates
    BY <1>1 DEF TypeOK, IntentStates
  <1>3. CASE e[2] = "mismatch"
    BY <1>1, <1>2, <1>3 DEF DecideReceipt
  <1>4. CASE e[2] \in {"succeeded", "query"}
    BY <1>1, <1>4 DEF DecideReceipt, IntentStates
  <1>5. CASE e[2] = "failed"
    BY <1>1, <1>2, <1>5 DEF DecideReceipt, IntentStates, Open
  <1>. QED BY <1>1, <1>3, <1>4, <1>5

LEMMA ApplyReceiptKeepsInv ==
    ASSUME IntentsInv, NEW e \in Events, ApplyReceipt(e)
    PROVE  IntentsInv'
  <1>1. link' = link /\ UNCHANGED <<legacy, deadline, inflight, shown, proc>> /\ PaidStays
    BY DEF ApplyReceipt, provider, world, PaidStays
  <1>2. /\ e \in Intents \X {"succeeded", "failed", "mismatch", "query"}
        /\ e[1] \in Intents /\ e = <<e[1], e[2]>>
        /\ DecideReceipt(e)[1] \in ReceiptStates /\ DecideReceipt(e)[2] \in IntentStates
    BY ReceiptDecides DEF IntentsInv, ReceiptStates, Events
  <1>3. receipt[e] = "received" /\ receipt' = [receipt EXCEPT ![e] = DecideReceipt(e)[1]]
        /\ intent' = [intent EXCEPT ![e[1]] = DecideReceipt(e)[2]]
    BY DEF ApplyReceipt
  <1>4. receipt' \in [Events -> ReceiptStates] /\ intent' \in [Intents -> IntentStates]
    BY <1>2, <1>3 DEF IntentsInv, TypeOK, ReceiptStates, IntentStates
  <1>5. age' \in [Intents -> Ages]
    BY <1>2 DEF IntentsInv, TypeOK, ApplyReceipt, Ages
  <1>6. proc' \in [Processes -> ProcRecords] /\ StepsHaveIntents' /\ FindingsArePaid'
    BY <1>1, ProcessesRest
  <1>7. TypeOK'
    BY <1>1, <1>4, <1>5, <1>6 DEF IntentsInv, TypeOK, ReceiptStates, IntentStates, Ages
  <1>8. ReceiptsArePaid'
    <2>1. \A f \in Events : receipt'[f] # "none" => receipt[f] # "none"
      BY <1>3 DEF IntentsInv, TypeOK
    <2>. QED BY <1>1, <2>1 DEF IntentsInv, ReceiptsArePaid, Events
  <1>9. CaptureIsReal'
    <2>1. e[2] \in {"succeeded", "query"} => link[e[1]] = "paid"
      BY <1>2, <1>3 DEF IntentsInv, ReceiptsArePaid
    <2>2. ASSUME NEW j \in Intents, intent'[j] = "captured"
          PROVE  link'[j] = "paid"
      <3>1. CASE j = e[1]
        BY <1>1, <1>2, <1>3, <2>1, <2>2, <3>1, ReceiptDecides DEF IntentsInv, TypeOK, CaptureIsReal
      <3>2. CASE j # e[1]
        BY <1>1, <1>3, <2>2, <3>2 DEF IntentsInv, TypeOK, CaptureIsReal
      <3>. QED BY <3>1, <3>2
    <2>. QED BY <2>2 DEF CaptureIsReal
  <1>. QED BY <1>6, <1>7, <1>8, <1>9 DEF IntentsInv

(* The buyer pays, a late creation arrives, a link or the deadline passes. *)
LEMMA WorldKeepsInv ==
    ASSUME IntentsInv,
           DeadlinePasses \/ \E i \in Intents : PayLink(i) \/ LateCreation(i) \/ LinkExpires(i) \/ TimePasses(i)
    PROVE  IntentsInv'
  <1> USE DEF provider, world
  <1>1. ASSUME NEW i \in Intents, PayLink(i) \/ LateCreation(i) \/ LinkExpires(i)
        PROVE  PaidStays /\ link' \in [Intents -> {"none", "open", "closed", "paid"}]
    BY <1>1 DEF PayLink, LateCreation, LinkExpires, PaidStays, IntentsInv, TypeOK
  <1>2. ASSUME DeadlinePasses \/ \E i \in Intents : TimePasses(i)
        PROVE  PaidStays /\ link' \in [Intents -> {"none", "open", "closed", "paid"}]
    BY <1>2 DEF DeadlinePasses, TimePasses, PaidStays, IntentsInv, TypeOK
  <1>3. PaidStays /\ link' \in [Intents -> {"none", "open", "closed", "paid"}]
    BY <1>1, <1>2
  <1>4. UNCHANGED <<legacy, intent, receipt, proc>> /\ shown' \subseteq Intents
    BY DEF DeadlinePasses, PayLink, LateCreation, LinkExpires, TimePasses, IntentsInv, TypeOK
  <1>5. deadline' \in BOOLEAN /\ inflight' \subseteq Intents
    BY DEF DeadlinePasses, PayLink, LateCreation, LinkExpires, TimePasses, IntentsInv, TypeOK
  <1>6. age' \in [Intents -> Ages]
    BY DEF DeadlinePasses, PayLink, LateCreation, LinkExpires, TimePasses, IntentsInv, TypeOK, Ages
  <1>7. proc' \in [Processes -> ProcRecords] /\ StepsHaveIntents' /\ FindingsArePaid'
    BY <1>3, <1>4, ProcessesRest
  <1>. QED BY <1>3, <1>4, <1>5, <1>6, <1>7, ProviderMoves

----------------------------------------------------------------------------
(* The theorems about intents.                                             *)

LEMMA InitHasIntentsInv == IntentsInit => IntentsInv
  <1> SUFFICES ASSUME IntentsInit PROVE IntentsInv
    OBVIOUS
  <1>1. TypeOK
    BY OldIntentsAssumption DEF IntentsInit, TypeOK, Idle
  <1>2. \A p \in Processes : proc[p].pc = "idle"
    BY DEF IntentsInit, Idle
  <1>3. StepsHaveIntents /\ FindingsArePaid
    BY <1>2 DEF StepsHaveIntents, FindingsArePaid, AboutIntent
  <1>4. ReceiptsArePaid /\ CaptureIsReal
    BY DEF IntentsInit, ReceiptsArePaid, CaptureIsReal, Events
  <1>. QED BY <1>1, <1>3, <1>4 DEF IntentsInv

LEMMA NextKeepsIntentsInv == IntentsInv /\ [IntentsNext]_intentsVars => IntentsInv'
  <1> SUFFICES ASSUME IntentsInv, [IntentsNext]_intentsVars PROVE IntentsInv'
    OBVIOUS
  <1>1. ASSUME NEW p \in Processes, ProcessStep(p)
        PROVE  IntentsInv'
    BY <1>1, RequestStartsKeepsInv, RequestFindsKeepsInv, RequestCreatesKeepsInv, ProviderCreatesKeepsInv,
       LinkRecordedKeepsInv, LinkRejectedKeepsInv, ReconcileKeepsInv, ResolveLegacyKeepsInv,
       QueryAnswersKeepsInv, CancellationKeepsInv, ResolveClosesKeepsInv, RecordFindingKeepsInv,
       CrashKeepsInv DEF ProcessStep
  <1>2. ASSUME NEW e \in Events, ReceiptStep(e)
        PROVE  IntentsInv'
    BY <1>2, ProcessWebhookKeepsInv, ApplyReceiptKeepsInv DEF ReceiptStep
  <1>3. CASE UNCHANGED intentsVars
    BY <1>3 DEF intentsVars, IntentsInv, TypeOK, StepsHaveIntents, FindingsArePaid, ReceiptsArePaid, CaptureIsReal
  <1>. QED BY <1>1, <1>2, <1>3, WorldKeepsInv DEF IntentsNext

(* The inductive invariant of intents, links, receipts and processes.      *)
THEOREM IntentsInvariant == IntentsSpec => []IntentsInv
  <1>. QED BY InitHasIntentsInv, NextKeepsIntentsInv, PTL DEF IntentsSpec

(* Payment calls an intent captured only when its link is paid in full,    *)
(* for any number of requests, workers, crashes and late answers.          *)
THEOREM CaptureAlwaysReal == IntentsSpec => []CaptureIsReal
  <1>. QED BY IntentsInvariant, PTL DEF IntentsInv

LEMMA StepKeepsCapture ==
    IntentsInv /\ [IntentsNext]_intentsVars => [\A i \in Intents : intent[i] = "captured" => intent'[i] = "captured"]_intentsVars
  <1> SUFFICES ASSUME IntentsInv, IntentsNext, NEW i \in Intents, intent[i] = "captured"
               PROVE  intent'[i] = "captured"
    BY DEF intentsVars
  <1>1. ASSUME NEW p \in Processes, ProcessStep(p)
        PROVE  intent'[i] = "captured"
    <2>1. UNCHANGED intent \/ \E j \in Intents : CreateOperation(j) \/ MarkLinked(j) \/ Close(j)
      <3>1. CASE LinkRecorded(p) \/ LinkRejected(p) \/ ResolveCloses(p)
        <4>1. proc[p].intent \in Intents
          BY <3>1, ProcessHasIntent DEF LinkRecorded, LinkRejected, ResolveCloses, AboutIntent, Pcs
        <4>. QED BY <3>1, <4>1 DEF LinkRecorded, LinkRejected, ResolveCloses
      <3>2. CASE RequestCreates(p)
        BY <3>2 DEF RequestCreates
      <3>3. CASE ~(LinkRecorded(p) \/ LinkRejected(p) \/ ResolveCloses(p) \/ RequestCreates(p))
        BY <1>1, <3>3 DEF ProcessStep, RequestStarts, RequestFinds, ProviderCreates, Reconcile, ResolveLegacy,
                          QueryAnswers, QueryFails, ProviderCancels, RecordFinding, Crash
      <3>. QED BY <3>1, <3>2, <3>3
    <2>2. CapturesStay
      BY <2>1, StatementsKeepCaptures DEF IntentsInv, CapturesStay
    <2>. QED BY <2>2 DEF CapturesStay
  <1>2. ASSUME NEW e \in Events, ReceiptStep(e)
        PROVE  intent'[i] = "captured"
    BY <1>2, ReceiptDecides DEF ReceiptStep, ProcessWebhook, ApplyReceipt, IntentsInv, TypeOK
  <1>3. CASE DeadlinePasses \/ \E j \in Intents : PayLink(j) \/ LateCreation(j) \/ LinkExpires(j) \/ TimePasses(j)
    BY <1>3 DEF DeadlinePasses, PayLink, LateCreation, LinkExpires, TimePasses
  <1>. QED BY <1>1, <1>2, <1>3 DEF IntentsNext

(* A captured intent stays captured: no failure, wrong amount, duplicate,  *)
(* close or retry of a request takes it back.                              *)
THEOREM CaptureAlwaysFinal == IntentsSpec => CaptureIsFinal
  <1>. QED BY IntentsInvariant, StepKeepsCapture, PTL DEF IntentsSpec, CaptureIsFinal

----------------------------------------------------------------------------
(* Receipts: the webhook, the worker and the administrator on one event.   *)

ReceiptRows == [status : {"none", "received", "retryable", "parked", "processed", "rejected"}, applied : Nat]
LinkStates == {"pending", "expired", "failed", "captured"}

ReceiptsTypeOK ==
    /\ event \in [Receipts -> Verdicts]
    /\ receiptRow \in [Receipts -> ReceiptRows]
    /\ linkStatus \in LinkStates
    /\ failing \subseteq Receipts

ReceiptsInv == ReceiptsTypeOK /\ ReceiptAppliedOnce

\* What every step owes the captures that were decided before it.
VerdictsStay == UNCHANGED event /\ (linkStatus = "captured" => linkStatus' = "captured")

(* A receipt whose row moves between undecided states.                     *)
LEMMA UndecidedRowMoves ==
    ASSUME ReceiptsInv, VerdictsStay, linkStatus' \in LinkStates, failing' \subseteq Receipts,
           NEW r \in Receipts, NEW status \in {"received", "retryable", "parked"},
           ~Done(r), receiptRow' = [receiptRow EXCEPT ![r].status = status]
    PROVE  ReceiptsInv'
  <1> DEFINE movedRow == [receiptRow[r] EXCEPT !.status = status]
  <1>1. receiptRow \in [Receipts -> ReceiptRows] /\ receiptRow[r] \in ReceiptRows
    BY DEF ReceiptsInv, ReceiptsTypeOK
  <1>2. movedRow \in ReceiptRows /\ movedRow.status = status /\ movedRow.applied = receiptRow[r].applied
    BY <1>1 DEF ReceiptRows
  <1>3. receiptRow' = [receiptRow EXCEPT ![r] = movedRow]
    BY <1>1
  <1> HIDE DEF movedRow
  <1>4. ReceiptsTypeOK'
    BY <1>1, <1>2, <1>3 DEF ReceiptsInv, ReceiptsTypeOK, VerdictsStay
  <1>5. ASSUME NEW q \in Receipts
        PROVE  /\ receiptRow'[q].applied = receiptRow[q].applied
               /\ Done(q)' <=> Done(q)
    BY <1>1, <1>2, <1>3 DEF Done
  <1>6. ReceiptAppliedOnce'
    BY <1>5 DEF ReceiptsInv, ReceiptAppliedOnce, VerdictsStay
  <1>. QED BY <1>4, <1>6 DEF ReceiptsInv

(* A receipt that is left alone, and so are the others.                    *)
LEMMA RowsRest ==
    ASSUME ReceiptsInv, UNCHANGED <<event, receiptRow, linkStatus>>, failing' \subseteq Receipts
    PROVE  ReceiptsInv'
  BY DEF ReceiptsInv, ReceiptsTypeOK, ReceiptAppliedOnce, Done

(* The decision of a receipt: none takes a capture back, and a payment in  *)
(* full makes one.                                                         *)
LEMMA DecisionKeepsCapture ==
    ASSUME ReceiptsTypeOK, NEW r \in Receipts
    PROVE  /\ Decision(r).status \in {"processed", "rejected"}
           /\ Decision(r).intent \in LinkStates
           /\ linkStatus = "captured" \/ event[r] = "succeeded" => Decision(r).intent = "captured"
  <1>1. event[r] \in {"succeeded", "mismatch", "failed"} /\ linkStatus \in LinkStates
    BY DEF ReceiptsTypeOK, Verdicts
  <1>2. CASE event[r] = "mismatch"
    BY <1>1, <1>2 DEF Decision
  <1>3. CASE event[r] = "succeeded"
    BY <1>1, <1>3 DEF Decision, LinkStates
  <1>4. CASE event[r] = "failed"
    BY <1>1, <1>4 DEF Decision, LinkStates
  <1>. QED BY <1>1, <1>2, <1>3, <1>4

(* One transaction applies a receipt: it was undecided, so this is the     *)
(* first time.                                                             *)
LEMMA applyReceiptKeepsInv ==
    ASSUME ReceiptsInv, NEW r \in Receipts, applyReceipt(r)
    PROVE  ReceiptsInv'
  <1>1. receiptRow \in [Receipts -> ReceiptRows] /\ receiptRow[r] \in ReceiptRows
    BY DEF ReceiptsInv, ReceiptsTypeOK
  <1>2. receiptRow[r].status \in OpenReceipt /\ UNCHANGED event /\ ~Done(r)
    BY DEF applyReceipt, OpenReceipt, Done
  <1>3. CASE Finish(r) /\ UNCHANGED failing
    <2> DEFINE movedRow == [status |-> Decision(r).status, applied |-> receiptRow[r].applied + 1]
    <2>1. receiptRow[r].applied \in Nat /\ receiptRow[r].applied <= 1 /\ receiptRow[r].applied # 1
      BY <1>1, <1>2 DEF ReceiptsInv, ReceiptAppliedOnce, ReceiptRows
    <2>2. receiptRow[r].applied + 1 = 1
      BY <2>1
    <2>3. movedRow \in ReceiptRows /\ movedRow.status \in {"processed", "rejected"} /\ movedRow.applied = 1
      BY <2>2, DecisionKeepsCapture DEF ReceiptsInv, ReceiptRows
    <2>4. receiptRow' = [receiptRow EXCEPT ![r] = movedRow] /\ linkStatus' = Decision(r).intent
      BY <1>3 DEF Finish
    <2> HIDE DEF movedRow
    <2>5. ReceiptsTypeOK'
      BY <1>1, <1>2, <1>3, <2>3, <2>4, DecisionKeepsCapture DEF ReceiptsInv, ReceiptsTypeOK
    <2>6. VerdictsStay /\ (event[r] = "succeeded" => linkStatus' = "captured")
      BY <1>2, <2>4, DecisionKeepsCapture DEF ReceiptsInv, VerdictsStay
    <2>7. ASSUME NEW q \in Receipts
          PROVE  /\ receiptRow'[q].applied <= 1 /\ (receiptRow'[q].applied = 1 <=> Done(q)')
                 /\ receiptRow'[q].applied = 1 /\ event'[q] = "succeeded" => linkStatus' = "captured"
      <3>1. CASE q = r
        BY <1>1, <1>2, <2>3, <2>4, <2>6, <3>1 DEF Done
      <3>2. CASE q # r
        BY <1>1, <2>4, <2>6, <3>2 DEF Done, ReceiptsInv, ReceiptAppliedOnce, VerdictsStay
      <3>. QED BY <3>1, <3>2
    <2>. QED BY <2>5, <2>7 DEF ReceiptsInv, ReceiptAppliedOnce
  <1>4. CASE Park(r) /\ UNCHANGED failing
    <2>1. VerdictsStay /\ linkStatus' \in LinkStates /\ failing' \subseteq Receipts
      BY <1>2, <1>4 DEF Park, VerdictsStay, ReceiptsInv, ReceiptsTypeOK
    <2>2. "parked" \in {"received", "retryable", "parked"} /\ receiptRow' = [receiptRow EXCEPT ![r].status = "parked"]
      BY <1>4 DEF Park
    <2>. QED BY <1>2, <2>1, <2>2, UndecidedRowMoves
  <1>5. CASE UNCHANGED <<event, receiptRow, linkStatus>> /\ failing' = failing \cup {r}
    <2>1. failing' \subseteq Receipts
      BY <1>5 DEF ReceiptsInv, ReceiptsTypeOK
    <2>. QED BY <1>5, <2>1, RowsRest
  <1>. QED BY <1>3, <1>4, <1>5 DEF applyReceipt

(* An attempt that failed is recorded late: by then another may have       *)
(* decided the receipt, which then stays decided.                          *)
LEMMA RecordFailureKeepsInv ==
    ASSUME ReceiptsInv, NEW r \in Receipts, RecordFailure(r)
    PROVE  ReceiptsInv'
  <1>1. failing' \subseteq Receipts /\ UNCHANGED <<event, linkStatus>> /\ VerdictsStay /\ linkStatus' \in LinkStates
    BY DEF RecordFailure, ReceiptsInv, ReceiptsTypeOK, VerdictsStay
  <1>2. receiptRow \in [Receipts -> ReceiptRows]
    BY DEF ReceiptsInv, ReceiptsTypeOK
  <1>3. CASE Done(r)
    <2>1. receiptRow' = receiptRow
      BY <1>2, <1>3 DEF RecordFailure, MarkRetryable, ReceiptRows
    <2>. QED BY <1>1, <2>1, RowsRest
  <1>4. CASE ~Done(r)
    <2>1. receiptRow' = [receiptRow EXCEPT ![r].status = "retryable"]
      BY <1>4 DEF RecordFailure, MarkRetryable
    <2>. QED BY <1>1, <1>4, <2>1, UndecidedRowMoves
  <1>. QED BY <1>3, <1>4

LEMMA InitHasReceiptsInv == ReceiptsInit => ReceiptsInv
  <1> SUFFICES ASSUME ReceiptsInit PROVE ReceiptsInv
    OBVIOUS
  <1>1. ReceiptsTypeOK
    BY DEF ReceiptsInit, ReceiptsTypeOK, ReceiptRows, LinkStates
  <1>2. \A r \in Receipts : receiptRow[r].applied = 0 /\ ~Done(r)
    BY DEF ReceiptsInit, Done
  <1>3. ReceiptAppliedOnce
    BY <1>2 DEF ReceiptAppliedOnce
  <1>. QED BY <1>1, <1>3 DEF ReceiptsInv

LEMMA NextKeepsReceiptsInv == ReceiptsInv /\ [ReceiptsNext]_receiptsVars => ReceiptsInv'
  <1> SUFFICES ASSUME ReceiptsInv, [ReceiptsNext]_receiptsVars PROVE ReceiptsInv'
    OBVIOUS
  <1>1. ASSUME NEW r \in Receipts, Record(r) \/ RetryReceipt(r)
        PROVE  ReceiptsInv'
    <2>1. /\ failing' \subseteq Receipts /\ linkStatus' \in LinkStates /\ VerdictsStay
      BY <1>1 DEF Record, RetryReceipt, ReceiptsInv, ReceiptsTypeOK, VerdictsStay
    <2>2. ~Done(r)
      BY <1>1 DEF Record, RetryReceipt, Done, OpenReceipt
    <2>3. PICK status \in {"received", "retryable", "parked"} : receiptRow' = [receiptRow EXCEPT ![r].status = status]
      BY <1>1 DEF Record, RetryReceipt, RequeueReceipt
    <2>. QED BY <2>1, <2>2, <2>3, UndecidedRowMoves
  <1>2. ASSUME NEW r \in Receipts, BecomeKnown(r) \/ GrowOld(r) \/ LoseFailure(r)
        PROVE  ReceiptsInv'
    <2>1. UNCHANGED <<event, receiptRow, linkStatus>> /\ failing' \subseteq Receipts
      BY <1>2 DEF BecomeKnown, GrowOld, LoseFailure, ReceiptsInv, ReceiptsTypeOK
    <2>. QED BY <2>1, RowsRest
  <1>3. ASSUME NEW r \in Receipts, ApplyNow(r) \/ ApplyDue(r)
        PROVE  ReceiptsInv'
    BY <1>3, applyReceiptKeepsInv DEF ApplyNow, ApplyDue
  <1>4. CASE UNCHANGED receiptsVars
    BY <1>4, RowsRest DEF receiptsVars, ReceiptsInv, ReceiptsTypeOK
  <1>. QED BY <1>1, <1>2, <1>3, <1>4, RecordFailureKeepsInv DEF ReceiptsNext

(* However the webhook, the worker and the administrator meet, a receipt's *)
(* decision is committed at most once and a capture it decided stays.      *)
THEOREM ReceiptAlwaysAppliedOnce == ReceiptsSpec => []ReceiptAppliedOnce
  <1>1. ReceiptsInv => ReceiptAppliedOnce
    BY DEF ReceiptsInv
  <1>. QED BY <1>1, InitHasReceiptsInv, NextKeepsReceiptsInv, PTL DEF ReceiptsSpec


(***************************************************************************)
(* Sequences whose elements have no type of their own.                     *)
(***************************************************************************)
IsSequence(s) == s \in Seq({s[j] : j \in DOMAIN s})

LEMMA SequenceOf ==
  ASSUME NEW S, NEW s \in Seq(S)
  PROVE  IsSequence(s) /\ Len(s) \in Nat /\ DOMAIN s = 1..Len(s)
<1>1. Len(s) \in Nat /\ DOMAIN s = 1..Len(s)
  OBVIOUS
<1>2. s \in [1..Len(s) -> {s[j] : j \in DOMAIN s}]
  BY <1>1
<1> QED BY <1>1, <1>2, SeqDef DEF IsSequence

(* Appending x.                                                            *)
LEMMA Appended ==
  ASSUME NEW s, IsSequence(s), NEW x
  PROVE  /\ IsSequence(Append(s, x)) /\ Len(s) \in Nat /\ Len(Append(s, x)) = Len(s) + 1
         /\ DOMAIN s = 1..Len(s) /\ DOMAIN Append(s, x) = 1..Len(s) + 1
         /\ \A j \in 1..Len(s) : Append(s, x)[j] = s[j]
         /\ Append(s, x)[Len(s) + 1] = x
<1> DEFINE S == {s[j] : j \in DOMAIN s} \cup {x}
<1>1. s \in Seq(S) /\ x \in S
  BY DEF IsSequence
<1> HIDE DEF S
<1>2. Append(s, x) \in Seq(S)
  BY <1>1
<1>3. IsSequence(Append(s, x)) /\ DOMAIN Append(s, x) = 1..Len(Append(s, x))
  BY <1>2, SequenceOf
<1>4. Len(s) \in Nat /\ DOMAIN s = 1..Len(s)
  BY <1>1
<1>5. Len(Append(s, x)) = Len(s) + 1 /\ Append(s, x)[Len(s) + 1] = x
  BY <1>1, AppendProperties
<1>6. \A j \in 1..Len(s) : Append(s, x)[j] = s[j]
  BY <1>1, AppendProperties
<1> QED BY <1>3, <1>4, <1>5, <1>6

(* Replacing element i.                                                    *)
LEMMA Replaced ==
  ASSUME NEW s, IsSequence(s), NEW i \in DOMAIN s, NEW x
  PROVE  /\ IsSequence([s EXCEPT ![i] = x]) /\ Len(s) \in Nat /\ Len([s EXCEPT ![i] = x]) = Len(s)
         /\ DOMAIN s = 1..Len(s) /\ DOMAIN [s EXCEPT ![i] = x] = DOMAIN s
         /\ [s EXCEPT ![i] = x][i] = x
         /\ \A j \in DOMAIN s \ {i} : [s EXCEPT ![i] = x][j] = s[j]
<1> DEFINE S == {s[j] : j \in DOMAIN s} \cup {x}
<1>1. s \in Seq(S) /\ x \in S
  BY DEF IsSequence
<1> HIDE DEF S
<1>2. i \in 1..Len(s) /\ Len(s) \in Nat /\ DOMAIN s = 1..Len(s)
  BY <1>1
<1>3. [s EXCEPT ![i] = x] \in Seq(S) /\ Len([s EXCEPT ![i] = x]) = Len(s)
  BY <1>1, <1>2, ExceptSeq
<1> QED BY <1>1, <1>2, <1>3, SequenceOf

-----------------------------------------------------------------------------
(***************************************************************************)
(* Payout items and the requests that record their transfers.              *)
(***************************************************************************)
TransferRequests ==
  [status : {"none", "draft", "pending", "approved", "closed"}, maker : Someone, checker : Someone,
   outcome : {"none"} \cup Resolved, snap : {"none", "pending"}, due : BOOLEAN]

(* A request's reviewer, and later its checker, is not its maker.          *)
TwoPeople(t) ==
  /\ review[t] # NoAdmin => review[t] # request[t].maker
  /\ request[t].status = "approved" => request[t].checker # request[t].maker

RequestsInv ==
  /\ request \in [Items -> TransferRequests]
  /\ review \in [Items -> Someone]
  /\ preparers \subseteq Admins
  /\ \A t \in Items : TwoPeople(t) /\ RequestAsks(t)

Approver(item, a) == a # NoAdmin /\ a # item.createdBy

(* The approval state of an item says who has approved it.                 *)
ItemIsApproved(item) ==
  /\ item = [status |-> item.status, amount |-> item.amount, entries |-> item.entries,
             createdBy |-> item.createdBy, state |-> item.state, required |-> item.required,
             first |-> item.first, second |-> item.second]
  /\ item.required \in {1, 2}
  /\ item.state = "awaiting_approval" => item.first = NoAdmin
  /\ item.state \in {"awaiting_second_approval", "approved"} => Approver(item, item.first)
  /\ item.state = "approved" /\ item.required = 2 => Approver(item, item.second) /\ item.second # item.first
  /\ item.status = "succeeded" => item.state = "approved"

ItemsInv ==
  /\ IsSequence(items) /\ Len(items) <= MaxItems
  /\ \A i \in DOMAIN items : ItemIsApproved(items[i])

SettlementInv == RequestsInv /\ ItemsInv

LEMMA InitHasSettlementInv == SettlementInit => SettlementInv
<1> SUFFICES ASSUME SettlementInit PROVE SettlementInv
  OBVIOUS
<1> USE DEF SettlementInit, LedgerInit, ApprovalInit
<1>1. NoRequest \in TransferRequests
  BY DEF NoRequest, TransferRequests, Someone
<1>2. RequestsInv
  BY <1>1 DEF RequestsInv, TwoPeople, RequestAsks, OpenRequest, NoRequest, Someone
<1>3. IsSequence(items) /\ Len(items) = 0 /\ DOMAIN items = {}
  <2>1. items = << >> /\ << >> \in Seq({})
    BY EmptySeq
  <2>2. IsSequence(items) /\ DOMAIN items = 1..Len(items)
    BY <2>1, SequenceOf
  <2> QED BY <2>1, <2>2, EmptySeq
<1> QED BY <1>2, <1>3, SettlementAssumption DEF SettlementInv, ItemsInv

(* The requests stay sound where only the request about t moves.           *)
LEMMA OneRequestMoves ==
  ASSUME RequestsInv, NEW t \in Items, NEW r \in TransferRequests, NEW who \in Someone,
         request' = [request EXCEPT ![t] = r], review' = [review EXCEPT ![t] = who],
         preparers' \subseteq preparers,
         who # NoAdmin => who # r.maker, r.status = "approved" => r.checker # r.maker,
         r.status \in {"draft", "pending"} => r.outcome \in Resolved
  PROVE  RequestsInv'
BY DEF RequestsInv, TwoPeople, RequestAsks, OpenRequest

LEMMA NewStatus ==
  ASSUME NEW r \in TransferRequests, NEW to \in {"pending", "approved"}, NEW checker \in Someone
  PROVE  /\ [r EXCEPT !.status = to, !.checker = checker] \in TransferRequests
         /\ [r EXCEPT !.status = to, !.checker = checker].maker = r.maker
         /\ [r EXCEPT !.status = to, !.checker = checker].status = to
         /\ [r EXCEPT !.status = to, !.checker = checker].checker = checker
BY DEF TransferRequests

LEMMA KeptOutcome ==
  ASSUME NEW r \in TransferRequests, NEW to, NEW checker
  PROVE  [r EXCEPT !.status = to, !.checker = checker].outcome = r.outcome
BY DEF TransferRequests

Closed == [NoRequest EXCEPT !.status = "closed"]

LEMMA ClosedIsTyped == Closed \in TransferRequests /\ Closed.status = "closed"
BY DEF Closed, NoRequest, TransferRequests, Someone

(* A request that ends without effect, with its review.                    *)
LEMMA RequestEnds ==
  ASSUME RequestsInv, NEW t \in Items, NEW to \in {"expired", "rejected", "cancelled"}, NEW checker,
         Transition(t, to, checker), review' = [review EXCEPT ![t] = NoAdmin], preparers' = preparers
  PROVE  RequestsInv'
<1>1. request' = [request EXCEPT ![t] = Closed]
  BY DEF Transition, Closed
<1>2. Closed \in TransferRequests /\ Closed.status = "closed" /\ NoAdmin \in Someone
  BY ClosedIsTyped DEF Someone
<1> HIDE DEF Closed
<1> QED BY <1>1, <1>2, OneRequestMoves

LEMMA ApprovalStepKeeps ==
  ASSUME RequestsInv, NEW t \in Items, ApprovalStep(t)
  PROVE  RequestsInv'
<1>1. request[t] \in TransferRequests /\ review[t] \in Someone /\ NoAdmin \in Someone /\ TwoPeople(t)
  BY DEF RequestsInv, Someone
<1>1a. OpenRequest(t) => request[t].outcome \in Resolved
  BY DEF RequestsInv, RequestAsks
<1>2. CASE Submit(t)
  <2>1. request' = [request EXCEPT ![t] = [request[t] EXCEPT !.status = "pending", !.checker = NoAdmin]]
    BY <1>2 DEF Submit, Transition
  <2>2. PICK r : r = [request[t] EXCEPT !.status = "pending", !.checker = NoAdmin]
    OBVIOUS
  <2>3. r \in TransferRequests /\ r.maker = request[t].maker /\ r.status = "pending" /\ r.outcome \in Resolved
    <3>1. r \in TransferRequests /\ r.maker = request[t].maker /\ r.status = "pending"
      BY <1>1, <2>2, NewStatus
    <3>2. r.outcome = request[t].outcome
      BY <1>1, <2>2, KeptOutcome
    <3> QED BY <1>1a, <1>2, <3>1, <3>2 DEF Submit, OpenRequest
  <2>4. review' = [review EXCEPT ![t] = review[t]] /\ preparers' = preparers
    BY <1>2 DEF Submit, RequestsInv
  <2> QED BY <1>1, <2>1, <2>2, <2>3, <2>4, OneRequestMoves DEF TwoPeople
<1>3. CASE expireIfDue(t) \/ Cancel(t) \/ \E c \in Admins : Reject(t, c)
  BY <1>3, RequestEnds DEF expireIfDue, Cancel, Reject
<1>4. ASSUME NEW c \in Admins, DecideChecks(t, c) PROVE RequestsInv'
  BY <1>1, <1>4 DEF DecideChecks, RequestsInv, TwoPeople, RequestAsks, OpenRequest, Someone
<1>5. CASE DecisionFails(t)
  BY <1>1, <1>5 DEF DecisionFails, RequestsInv, TwoPeople, RequestAsks, OpenRequest
<1>6. CASE RequestOverdue(t)
  <2>1. PICK r : r = [request[t] EXCEPT !.due = TRUE]
    OBVIOUS
  <2>2. r \in TransferRequests /\ r.maker = request[t].maker /\ r.status = request[t].status
        /\ r.checker = request[t].checker /\ r.outcome = request[t].outcome
    BY <1>1, <2>1 DEF TransferRequests
  <2>3. request' = [request EXCEPT ![t] = r]
    BY <1>6, <2>1 DEF RequestOverdue
  <2>4. review' = [review EXCEPT ![t] = review[t]] /\ preparers' = preparers
    BY <1>6 DEF RequestOverdue, RequestsInv
  <2> QED BY <1>1, <1>1a, <2>2, <2>3, <2>4, OneRequestMoves DEF TwoPeople, OpenRequest
<1> QED BY <1>2, <1>3, <1>4, <1>5, <1>6 DEF ApprovalStep

LEMMA DraftTransferKeeps ==
  ASSUME RequestsInv, NEW t \in Items, NEW maker \in Admins, NEW outcome \in Resolved,
         Draft(t, maker, outcome, "pending")
  PROVE  RequestsInv'
<1>1. PICK r : r = [NoRequest EXCEPT !.status = "draft", !.maker = maker, !.outcome = outcome, !.snap = "pending"]
  OBVIOUS
<1>2. r \in TransferRequests /\ r.status = "draft" /\ r.outcome \in Resolved /\ NoAdmin \in Someone
  BY <1>1 DEF NoRequest, TransferRequests, Someone
<1>3. request' = [request EXCEPT ![t] = r] /\ review' = [review EXCEPT ![t] = NoAdmin] /\ preparers' = preparers
  BY <1>1 DEF Draft
<1> QED BY <1>2, <1>3, OneRequestMoves

LEMMA ApproveRequestKeeps ==
  ASSUME RequestsInv, NEW t \in Items, ApproveRequest(t)
  PROVE  RequestsInv'
<1>1. request[t] \in TransferRequests /\ review[t] \in Someone /\ NoAdmin \in Someone /\ TwoPeople(t)
  BY DEF RequestsInv, Someone
<1>2. PICK r : r = [request[t] EXCEPT !.status = "approved", !.checker = review[t]]
  OBVIOUS
<1>3. r \in TransferRequests /\ r.maker = request[t].maker /\ r.checker = review[t] /\ r.status = "approved"
  <2>1. r \in TransferRequests /\ r.maker = request[t].maker /\ r.checker = review[t]
    BY <1>1, <1>2, NewStatus
  <2>2. r.status = "approved"
    BY <1>1, <1>2 DEF TransferRequests
  <2> QED BY <2>1, <2>2
<1>4. request' = [request EXCEPT ![t] = r] /\ review' = [review EXCEPT ![t] = NoAdmin] /\ preparers' = preparers
  BY <1>2 DEF ApproveRequest, Transition
<1>5. review[t] # NoAdmin
  BY DEF ApproveRequest
<1> QED BY <1>1, <1>3, <1>4, <1>5, OneRequestMoves DEF TwoPeople

(* The items stay sound where one of them moves.                           *)
LEMMA OneItemMoves ==
  ASSUME ItemsInv, NEW i \in DOMAIN items, NEW x, ItemIsApproved(x), items' = [items EXCEPT ![i] = x]
  PROVE  ItemsInv'
<1>1. IsSequence(items') /\ Len(items') = Len(items) /\ DOMAIN items' = DOMAIN items
  BY Replaced DEF ItemsInv
<1>2. \A j \in DOMAIN items : items'[j] = IF j = i THEN x ELSE items[j]
  BY Replaced DEF ItemsInv
<1>3. \A j \in DOMAIN items : ItemIsApproved(items'[j])
  BY <1>2 DEF ItemsInv
<1> QED BY <1>1, <1>3 DEF ItemsInv

LEMMA CreatePayoutBatchKeeps ==
  ASSUME ItemsInv, NEW admin \in Creators, CreatePayoutBatch(admin)
  PROVE  ItemsInv'
<1>1. PICK x : x = [status |-> "pending", amount |-> SumAmounts(PayableEntries), entries |-> PayableEntries,
                    createdBy |-> admin, state |-> "awaiting_approval",
                    required |-> Required(SumAmounts(PayableEntries)),
                    first |-> NoAdmin, second |-> NoAdmin]
  OBVIOUS
<1>2. items' = Append(items, x) /\ Len(items) < MaxItems
  BY <1>1 DEF CreatePayoutBatch
<1>3. Required(SumAmounts(PayableEntries)) \in {1, 2}
  BY DEF Required
<1>4. ItemIsApproved(x)
  BY <1>1, <1>3 DEF ItemIsApproved
<1>5. /\ IsSequence(items') /\ Len(items) \in Nat /\ Len(items') = Len(items) + 1
      /\ DOMAIN items = 1..Len(items) /\ DOMAIN items' = 1..Len(items) + 1
      /\ \A j \in 1..Len(items) : items'[j] = items[j]
      /\ items'[Len(items) + 1] = x
  BY <1>2, Appended DEF ItemsInv
<1>6. Len(items') <= MaxItems
  BY <1>2, <1>5, SettlementAssumption
<1>7. ASSUME NEW j \in DOMAIN items' PROVE ItemIsApproved(items'[j])
  <2>1. j \in 1..Len(items) \/ j = Len(items) + 1
    BY <1>5
  <2>2. j \in 1..Len(items) => items'[j] = items[j] /\ ItemIsApproved(items[j])
    BY <1>5 DEF ItemsInv
  <2> QED BY <1>4, <1>5, <2>1, <2>2
<1> QED BY <1>5, <1>6, <1>7 DEF ItemsInv

LEMMA ApprovePayoutBatchKeeps ==
  ASSUME ItemsInv, NEW i \in Items, NEW actor \in Approvers, ApprovePayoutBatch(i, actor)
  PROVE  ItemsInv'
<1>1. /\ i \in DOMAIN items /\ ItemIsApproved(items[i]) /\ actor # NoAdmin
      /\ actor # items[i].createdBy /\ actor # items[i].first
  BY SettlementAssumption DEF ApprovePayoutBatch, ItemsInv
<1>2. CASE items[i].state = "awaiting_second_approval"
  <2>1. PICK x : x = [items[i] EXCEPT !.second = actor, !.state = "approved"]
    OBVIOUS
  <2>2. items' = [items EXCEPT ![i] = x]
    BY <1>2, <2>1 DEF ApprovePayoutBatch, SaveApproval
  <2>3. /\ x = [status |-> items[i].status, amount |-> items[i].amount, entries |-> items[i].entries,
                createdBy |-> items[i].createdBy, state |-> "approved", required |-> items[i].required,
                first |-> items[i].first, second |-> actor]
    BY <1>1, <2>1 DEF ItemIsApproved
  <2>4. ItemIsApproved(x)
    BY <1>1, <1>2, <2>3 DEF ItemIsApproved, Approver
  <2> QED BY <1>1, <2>2, <2>4, OneItemMoves
<1>3. CASE items[i].state = "awaiting_approval"
  <2> DEFINE next == IF items[i].required >= 2 THEN "awaiting_second_approval" ELSE "approved"
  <2>1. PICK x : x = [items[i] EXCEPT !.first = actor, !.state = next]
    OBVIOUS
  <2>2. items' = [items EXCEPT ![i] = x]
    BY <1>3, <2>1 DEF ApprovePayoutBatch, SaveApproval
  <2>3. /\ x = [status |-> items[i].status, amount |-> items[i].amount, entries |-> items[i].entries,
                createdBy |-> items[i].createdBy, state |-> next, required |-> items[i].required,
                first |-> actor, second |-> items[i].second]
    BY <1>1, <2>1 DEF ItemIsApproved
  <2>4. /\ items[i].required \in {1, 2} /\ items[i].status # "succeeded"
        /\ Approver(x, actor)
    BY <1>1, <1>3, <2>3 DEF ItemIsApproved, Approver
  <2>5. /\ items[i].required = 2 => next = "awaiting_second_approval"
        /\ items[i].required = 1 => next = "approved"
    BY <2>4
  <2> HIDE DEF next
  <2>6. /\ x.first = actor /\ x.state = next /\ x.required = items[i].required
        /\ x.status = items[i].status
    BY <2>3
  <2>7. x = [status |-> x.status, amount |-> x.amount, entries |-> x.entries, createdBy |-> x.createdBy,
             state |-> x.state, required |-> x.required, first |-> x.first, second |-> x.second]
    BY <2>3
  <2>8. ItemIsApproved(x)
    BY <2>4, <2>5, <2>6, <2>7 DEF ItemIsApproved
  <2> QED BY <1>1, <2>2, <2>8, OneItemMoves
<1> QED BY <1>2, <1>3 DEF ApprovePayoutBatch, OpenApproval

(* An item that ends without a transfer.                                   *)
LEMMA EndedIsApproved ==
  ASSUME ItemsInv, NEW i \in DOMAIN items, NEW status \in {"cancelled", "failed"}
  PROVE  ItemIsApproved(EndedItem(i, status))
<1>1. ItemIsApproved(items[i])
  BY DEF ItemsInv
<1>2. PICK a : a = [items[i] EXCEPT !.status = status, !.state = "ended"]
  OBVIOUS
<1>3. a = [status |-> status, amount |-> items[i].amount, entries |-> items[i].entries,
           createdBy |-> items[i].createdBy, state |-> "ended", required |-> items[i].required,
           first |-> items[i].first, second |-> items[i].second]
  BY <1>1, <1>2 DEF ItemIsApproved
<1>4. PICK b : b = [a EXCEPT !.amount = 0, !.entries = {}]
  OBVIOUS
<1>5. b = [status |-> status, amount |-> 0, entries |-> {},
           createdBy |-> items[i].createdBy, state |-> "ended", required |-> items[i].required,
           first |-> items[i].first, second |-> items[i].second]
  BY <1>3, <1>4
<1>6. PICK c : c = [b EXCEPT !.first = NoAdmin, !.second = NoAdmin]
  OBVIOUS
<1>7. c = [status |-> status, amount |-> 0, entries |-> {},
           createdBy |-> items[i].createdBy, state |-> "ended", required |-> items[i].required,
           first |-> NoAdmin, second |-> NoAdmin]
  BY <1>5, <1>6
<1>8. c = EndedItem(i, status)
  BY <1>2, <1>4, <1>6 DEF EndedItem
<1>9. ItemIsApproved(c)
  BY <1>1, <1>7 DEF ItemIsApproved
<1> QED BY <1>8, <1>9

LEMMA CloseItemKeeps ==
  ASSUME ItemsInv, NEW i \in Items, ClosePayoutBatch(i) \/ CancelPayoutItem(i)
  PROVE  ItemsInv'
<1>1. i \in DOMAIN items
  BY DEF ClosePayoutBatch, CancelPayoutItem
<1>2. PICK x : x = EndedItem(i, "cancelled")
  OBVIOUS
<1>3. items' = [items EXCEPT ![i] = x]
  BY <1>2 DEF ClosePayoutBatch, CancelPayoutItem, SaveApproval
<1> QED BY <1>1, <1>2, <1>3, EndedIsApproved, OneItemMoves

LEMMA ResolvePayoutItemKeeps ==
  ASSUME ItemsInv, NEW i \in Items, resolvePayoutItem(i)
  PROVE  ItemsInv'
<1>1. i \in DOMAIN items /\ ItemIsApproved(items[i]) /\ items[i].state = "approved"
  BY DEF resolvePayoutItem, ResolvablePayoutItem, AllowsTransfers, ItemsInv
<1>2. CASE request[i].outcome = "failed"
  <2>1. PICK x : x = EndedItem(i, "failed")
    OBVIOUS
  <2>2. items' = [items EXCEPT ![i] = x]
    BY <1>2, <2>1 DEF resolvePayoutItem
  <2> QED BY <1>1, <2>1, <2>2, EndedIsApproved, OneItemMoves
<1>3. CASE request[i].outcome # "failed"
  <2>1. PICK x : x = [items[i] EXCEPT !.status = "succeeded"]
    OBVIOUS
  <2>2. items' = [items EXCEPT ![i] = x]
    BY <1>3, <2>1 DEF resolvePayoutItem
  <2>3. x = [status |-> "succeeded", amount |-> items[i].amount, entries |-> items[i].entries,
             createdBy |-> items[i].createdBy, state |-> items[i].state, required |-> items[i].required,
             first |-> items[i].first, second |-> items[i].second]
    BY <1>1, <2>1 DEF ItemIsApproved
  <2>4. ItemIsApproved(x)
    BY <1>1, <2>3 DEF ItemIsApproved, Approver
  <2> QED BY <1>1, <2>2, <2>4, OneItemMoves
<1> QED BY <1>2, <1>3

LEMMA NextKeepsSettlementInv == SettlementInv /\ [SettlementNext]_settlementVars => SettlementInv'
<1> SUFFICES ASSUME SettlementInv, [SettlementNext]_settlementVars PROVE SettlementInv'
  OBVIOUS
<1> USE DEF SettlementInv, approvalVars, ledgerVars
<1>1. UNCHANGED approvalVars => RequestsInv'
  BY DEF RequestsInv, TwoPeople, RequestAsks, OpenRequest
<1>2. UNCHANGED items => ItemsInv'
  BY DEF ItemsInv
<1>3. ASSUME NEW a \in Creators, CreatePayoutBatch(a) PROVE SettlementInv'
  BY <1>1, <1>3, CreatePayoutBatchKeeps DEF CreatePayoutBatch
<1>4. ASSUME NEW i \in Items, NEW a \in Approvers, ApprovePayoutBatch(i, a) PROVE SettlementInv'
  BY <1>1, <1>4, ApprovePayoutBatchKeeps DEF ApprovePayoutBatch, SaveApproval
<1>5. ASSUME NEW i \in Items, ClosePayoutBatch(i) \/ CancelPayoutItem(i) PROVE SettlementInv'
  BY <1>1, <1>5, CloseItemKeeps DEF ClosePayoutBatch, CancelPayoutItem, SaveApproval
<1>6. ASSUME NEW i \in Items, NEW a \in Creators, NEW outcome \in Resolved, DraftTransfer(i, a, outcome)
      PROVE  SettlementInv'
  <2>1. a \in Admins
    BY SettlementAssumption
  <2> QED BY <1>2, <1>6, <2>1, DraftTransferKeeps DEF DraftTransfer
<1>7. ASSUME NEW i \in Items, resolvePayoutItem(i) PROVE SettlementInv'
  BY <1>7, ResolvePayoutItemKeeps, ApproveRequestKeeps DEF resolvePayoutItem
<1>8. ASSUME NEW t \in Items, ApprovalStep(t), UNCHANGED ledgerVars PROVE SettlementInv'
  BY <1>2, <1>8, ApprovalStepKeeps
<1>9. CASE \/ \E vo \in VendorOrders : IngestStep(vo) \/ ReturnWindowEnds(vo) \/ OrderHolds(vo)
           \/ \E r \in RefundIds : RefundOpens(r) \/ RefundFails(r) \/ PostStep(r)
           \/ \E h \in HoldIds : Acquire(h) \/ Release(h)
           \/ \E amount \in Adjustments : adjust(amount)
           \/ AccountChanges
  BY <1>1, <1>2, <1>9 DEF IngestStep, SucceededRefunds, IngestVendorOrder, IngestRollsBack, ReturnWindowEnds,
                          OrderHolds, RefundOpens, RefundFails, PostStep, FindOrder, PostRefund, PostRollsBack,
                          Acquire, Release, adjust, AccountChanges
<1>10. CASE UNCHANGED settlementVars
  BY <1>1, <1>2, <1>10 DEF settlementVars
<1> QED BY <1>3, <1>4, <1>5, <1>6, <1>7, <1>8, <1>9, <1>10 DEF SettlementNext, Resolved

(* Two new people are two.                                                 *)
LEMMA ApproversCount ==
  ASSUME NEW item, ItemIsApproved(item), item.state = "approved"
  PROVE  Cardinality({item.first, item.second} \ {NoAdmin, item.createdBy}) >= item.required
<1> DEFINE people == {item.first, item.second} \ {NoAdmin, item.createdBy}
<1>1. item.first \in people /\ item.required \in {1, 2}
  BY DEF ItemIsApproved, Approver
<1>2. IsFiniteSet({item.first}) /\ Cardinality({item.first}) = 1
  BY FS_Singleton
<1>3. IsFiniteSet(people)
  <2>1. IsFiniteSet({item.first} \cup {item.second})
    BY <1>2, FS_AddElement
  <2>2. people \subseteq {item.first} \cup {item.second}
    OBVIOUS
  <2> QED BY <2>1, <2>2, FS_Subset
<1>4. {item.first} \subseteq people
  BY <1>1
<1>5. Cardinality(people) \in Nat /\ Cardinality(people) >= 1
  BY <1>2, <1>3, <1>4, FS_Subset, FS_CardinalityType
<1>6. CASE item.required = 2
  <2>1. item.second \in people /\ item.second # item.first
    BY <1>6 DEF ItemIsApproved, Approver
  <2>2. Cardinality({item.first} \cup {item.second}) = 2
    BY <1>2, <2>1, FS_AddElement
  <2>3. {item.first} \cup {item.second} \subseteq people
    BY <1>1, <2>1
  <2> QED BY <1>3, <1>5, <1>6, <2>2, <2>3, FS_Subset
<1> QED BY <1>1, <1>5, <1>6

LEMMA SettlementInvApproves == SettlementInv => PayoutsAreApproved
<1> SUFFICES ASSUME SettlementInv, NEW i \in DOMAIN items, items[i].status = "succeeded"
             PROVE  /\ Cardinality({items[i].first, items[i].second} \ {NoAdmin, items[i].createdBy})
                         >= items[i].required
                    /\ request[i].status = "approved" => request[i].maker # request[i].checker
  BY DEF PayoutsAreApproved
<1>1. ItemIsApproved(items[i]) /\ items[i].state = "approved"
  BY DEF SettlementInv, ItemsInv, ItemIsApproved
<1>2. i \in Items
  <2>1. DOMAIN items = 1..Len(items) /\ Len(items) \in Nat /\ Len(items) <= MaxItems
    BY SequenceOf DEF SettlementInv, ItemsInv, IsSequence
  <2> QED BY <2>1, SettlementAssumption DEF Items
<1> QED BY <1>1, <1>2, ApproversCount DEF SettlementInv, RequestsInv, TwoPeople

(* Every payout that succeeded had the approvals its amount and its        *)
(* destination ask for, each by a person who did not create it, and its    *)
(* transfer was recorded by two people (ApprovePayoutBatch, Decide).       *)
THEOREM PayoutsAlwaysApproved == SettlementSpec => []PayoutsAreApproved
<1> QED BY InitHasSettlementInv, NextKeepsSettlementInv, SettlementInvApproves, PTL DEF SettlementSpec

-----------------------------------------------------------------------------
(***************************************************************************)
(* Reimbursements.                                                         *)
(***************************************************************************)
ReimbursementRows ==
  [status : {"requested", "approved", "rejected", "paid"}, by : Operators, key : Keys, version : Nat,
   decidedBy : Operators \cup {"none"}, proof : {<< >>} \cup (Nat \X Nat \X BOOLEAN),
   paidTo : Nat \cup {"none"}, reference : References \cup {NoReference}]

Calls == [id : Nat, version : Nat, approve : BOOLEAN, proof : {<< >>} \cup (Nat \X Nat \X BOOLEAN)]

Approved(r) == r.status \in {"approved", "paid"}

(* Only the first version is still to be decided; an approval names its    *)
(* admin and the proof for that version, a payment its reference.          *)
RowIsProven(id, r) ==
  /\ r.status = "requested" => r.version = 1
  /\ Approved(r) => r.decidedBy \in Operators \ {r.by} /\ r.proof = ReimbursementDecisionRef(id, 1, TRUE)
  /\ r.status = "paid" <=> r.reference # NoReference

(* A decision under way spent the proof for exactly what it decides.       *)
CallIsProven(c) == c # NoCall => c.proof = ReimbursementDecisionRef(c.id, c.version, c.approve)

(* No two reimbursements name one bank transfer.                           *)
ReferencesDiffer ==
  \A i, j \in Reimbursed : i # j /\ reimbursements[i].reference # NoReference =>
    reimbursements[j].reference # reimbursements[i].reference

ReimbursementsInv ==
  /\ reimbursements \in Seq(ReimbursementRows)
  /\ \A i \in Reimbursed : RowIsProven(i, reimbursements[i])
  /\ ReferencesDiffer
  /\ destination \in [account : Nat, status : {"none", "pending", "verified", "rejected"}]
  /\ call \in [Operators -> Calls]
  /\ \A a \in Operators : CallIsProven(call[a])

LEMMA InitHasReimbursementsInv == ReimbursementsInit => ReimbursementsInv
<1> SUFFICES ASSUME ReimbursementsInit PROVE ReimbursementsInv
  OBVIOUS
<1> USE DEF ReimbursementsInit
<1>1. reimbursements \in Seq(ReimbursementRows) /\ Reimbursed = {}
  BY EmptySeq DEF Reimbursed
<1>2. destination \in [account : Nat, status : {"none", "pending", "verified", "rejected"}]
  OBVIOUS
<1>3. NoCall \in Calls
  BY DEF NoCall, Calls
<1>4. \A a \in Operators : CallIsProven(call[a])
  BY DEF CallIsProven
<1>5. call \in [Operators -> Calls]
  BY <1>3
<1> QED BY <1>1, <1>2, <1>4, <1>5 DEF ReimbursementsInv, ReferencesDiffer

LEMMA ReimbursedAre ==
  ASSUME ReimbursementsInv
  PROVE  /\ Reimbursed = 1..Len(reimbursements) /\ Len(reimbursements) \in Nat
         /\ \A i \in Reimbursed : i \in Nat /\ reimbursements[i] \in ReimbursementRows /\ RowIsProven(i, reimbursements[i])
<1>1. reimbursements \in Seq(ReimbursementRows)
  BY DEF ReimbursementsInv
<1>2. Reimbursed = 1..Len(reimbursements) /\ Len(reimbursements) \in Nat
  BY <1>1 DEF Reimbursed
<1> QED BY <1>1, <1>2, ElementOfSeq DEF ReimbursementsInv

(* The reimbursements stay proven where one of them moves, names a new     *)
(* reference or keeps its own.                                             *)
LEMMA OneReimbursementMoves ==
  ASSUME ReimbursementsInv, NEW id \in Reimbursed, NEW r \in ReimbursementRows, RowIsProven(id, r),
         reimbursements' = [reimbursements EXCEPT ![id] = r],
         \/ r.reference = reimbursements[id].reference
         \/ \A j \in Reimbursed : reimbursements[j].reference # r.reference
  PROVE  /\ reimbursements' \in Seq(ReimbursementRows)
         /\ (\A i \in Reimbursed : RowIsProven(i, reimbursements[i]))'
         /\ ReferencesDiffer'
<1>1. reimbursements \in Seq(ReimbursementRows) /\ id \in 1..Len(reimbursements)
  BY ReimbursedAre DEF ReimbursementsInv
<1>2. /\ reimbursements' \in Seq(ReimbursementRows)
      /\ \A j \in 1..Len(reimbursements) : reimbursements'[j] = IF j = id THEN r ELSE reimbursements[j]
      /\ Len(reimbursements') = Len(reimbursements)
  BY <1>1, ExceptSeq
<1>3. Reimbursed' = Reimbursed /\ Reimbursed = 1..Len(reimbursements)
  BY <1>1, <1>2, ReimbursedAre DEF Reimbursed
<1>4. \A i \in Reimbursed : RowIsProven(i, reimbursements'[i])
  BY <1>2, <1>3, ReimbursedAre
<1>5. ReferencesDiffer'
  <2> SUFFICES ASSUME NEW i \in Reimbursed, NEW j \in Reimbursed, i # j,
                      reimbursements'[i].reference # NoReference
               PROVE  reimbursements'[j].reference # reimbursements'[i].reference
    BY <1>3 DEF ReferencesDiffer
  <2>1. /\ reimbursements[i].reference # NoReference => reimbursements[j].reference # reimbursements[i].reference
        /\ reimbursements[j].reference # NoReference => reimbursements[i].reference # reimbursements[j].reference
    BY DEF ReimbursementsInv, ReferencesDiffer
  <2>2. /\ reimbursements'[i] = IF i = id THEN r ELSE reimbursements[i]
        /\ reimbursements'[j] = IF j = id THEN r ELSE reimbursements[j]
    BY <1>2, <1>3
  <2> QED BY <2>1, <2>2
<1> QED BY <1>2, <1>3, <1>4, <1>5

LEMMA RequestKeeps ==
  ASSUME ReimbursementsInv, NEW actor \in Operators, NEW key \in Keys, Request(actor, key)
  PROVE  ReimbursementsInv'
<1>1. PICK r : r = NewItem(actor, key)
  OBVIOUS
<1>2. r \in ReimbursementRows /\ r.status = "requested" /\ r.version = 1 /\ r.reference = NoReference
  BY <1>1 DEF NewItem, ReimbursementRows
<1>3. /\ reimbursements' = Append(reimbursements, r)
      /\ UNCHANGED <<destination, call>>
  BY <1>1 DEF Request
<1>4. /\ reimbursements' \in Seq(ReimbursementRows)
      /\ Len(reimbursements') = Len(reimbursements) + 1
      /\ \A i \in 1..Len(reimbursements) : reimbursements'[i] = reimbursements[i]
      /\ reimbursements'[Len(reimbursements) + 1] = r
  BY <1>2, <1>3, AppendProperties DEF ReimbursementsInv
<1>5. /\ Reimbursed' = 1..Len(reimbursements) + 1 /\ Reimbursed = 1..Len(reimbursements)
      /\ Len(reimbursements) \in Nat
  BY <1>4, ReimbursedAre DEF Reimbursed
<1>6. ASSUME NEW i \in Reimbursed' PROVE RowIsProven(i, reimbursements'[i])
  <2>1. i \in Reimbursed \/ i = Len(reimbursements) + 1
    BY <1>5
  <2>2. RowIsProven(i, r)
    BY <1>2 DEF RowIsProven, Approved
  <2> QED BY <1>4, <1>5, <2>1, <2>2, ReimbursedAre
<1>7. ReferencesDiffer'
  <2> SUFFICES ASSUME NEW i \in Reimbursed', NEW j \in Reimbursed', i # j,
                      reimbursements'[i].reference # NoReference
               PROVE  reimbursements'[j].reference # reimbursements'[i].reference
    BY DEF ReferencesDiffer
  <2>1. i \in Reimbursed /\ (j \in Reimbursed \/ j = Len(reimbursements) + 1)
    BY <1>2, <1>4, <1>5
  <2> QED BY <1>2, <1>4, <1>5, <2>1 DEF ReimbursementsInv, ReferencesDiffer
<1> QED BY <1>3, <1>4, <1>6, <1>7 DEF ReimbursementsInv

LEMMA SpendProofKeeps ==
  ASSUME ReimbursementsInv, NEW actor \in Operators, NEW id \in Nat, NEW version \in Nat, NEW approve \in BOOLEAN,
         SpendProof(actor, id, version, approve)
  PROVE  ReimbursementsInv'
<1>1. PICK c : c = [id |-> id, version |-> version, approve |-> approve,
                    proof |-> ReimbursementDecisionRef(id, version, approve)]
  OBVIOUS
<1>2. call' = [call EXCEPT ![actor] = c] /\ UNCHANGED <<reimbursements, destination>>
  BY <1>1 DEF SpendProof
<1>3. c.proof = ReimbursementDecisionRef(c.id, c.version, c.approve)
  BY <1>1
<1>4. ReimbursementDecisionRef(id, version, approve) \in Nat \X Nat \X BOOLEAN
  BY DEF ReimbursementDecisionRef
<1>5. c \in Calls
  BY <1>1, <1>4 DEF Calls
<1>6. call' \in [Operators -> Calls]
  BY <1>2, <1>5 DEF ReimbursementsInv
<1>7. \A a \in Operators : CallIsProven(call'[a])
  BY <1>2, <1>3 DEF ReimbursementsInv, CallIsProven
<1> QED BY <1>2, <1>6, <1>7 DEF ReimbursementsInv, ReferencesDiffer, Reimbursed

LEMMA DecideKeeps ==
  ASSUME ReimbursementsInv, NEW actor \in Operators, Decide(actor)
  PROVE  ReimbursementsInv'
<1> DEFINE c == call[actor]
           row0 == reimbursements[c.id]
<1>1. call' = [call EXCEPT ![actor] = NoCall] /\ UNCHANGED destination /\ c # NoCall
  BY DEF Decide
<1>2. call' \in [Operators -> Calls] /\ \A a \in Operators : CallIsProven(call'[a])
  <2>1. NoCall \in Calls
    BY DEF NoCall, Calls
  <2> QED BY <1>1, <2>1 DEF ReimbursementsInv, CallIsProven
<1>3. CASE UNCHANGED reimbursements
  BY <1>1, <1>2, <1>3 DEF ReimbursementsInv, ReferencesDiffer, Reimbursed
<1>4. CASE c.id \in Reimbursed /\ row0.version = c.version /\ MayDecideItem(actor, row0)
  <2> DEFINE outcome == IF c.approve THEN "approved" ELSE "rejected"
  <2>1. /\ row0 \in ReimbursementRows /\ RowIsProven(c.id, row0)
        /\ row0.status = "requested" /\ row0.version = 1 /\ actor # row0.by
        /\ row0.reference = NoReference
    BY <1>4, ReimbursedAre DEF MayDecideItem, RowIsProven, ReimbursementRows
  <2>2. c \in Calls /\ c.proof = ReimbursementDecisionRef(c.id, c.version, c.approve)
    BY <1>1 DEF ReimbursementsInv, CallIsProven
  <2>3. c.approve \in BOOLEAN /\ c.proof \in {<< >>} \cup (Nat \X Nat \X BOOLEAN)
    BY <2>2 DEF Calls
  <2>4. PICK s : s = outcome
    OBVIOUS
  <2>5. s \in {"approved", "rejected"} /\ (s = "approved" => c.approve = TRUE)
    BY <2>3, <2>4
  <2>6. PICK r : r = [row0 EXCEPT !.status = s, !.decidedBy = actor, !.proof = c.proof]
    OBVIOUS
  <2>7. /\ r = [status |-> s, by |-> row0.by, key |-> row0.key, version |-> row0.version, decidedBy |-> actor,
                proof |-> c.proof, paidTo |-> row0.paidTo, reference |-> row0.reference]
    BY <2>1, <2>6 DEF ReimbursementRows
  <2>8. PICK new : new = [r EXCEPT !.version = @ + 1]
    OBVIOUS
  <2>9. reimbursements' = [reimbursements EXCEPT ![c.id] = new]
    BY <1>4, <2>4, <2>6, <2>8 DEF Decide, Save
  <2>10. new = [status |-> s, by |-> row0.by, key |-> row0.key, version |-> 2, decidedBy |-> actor,
                proof |-> c.proof, paidTo |-> row0.paidTo, reference |-> NoReference]
    BY <2>1, <2>7, <2>8
  <2>11. new \in ReimbursementRows /\ new.reference = row0.reference
    BY <2>1, <2>3, <2>5, <2>10 DEF ReimbursementRows
  <2>12. RowIsProven(c.id, new)
    <3>1. s = "approved" => c.proof = ReimbursementDecisionRef(c.id, 1, TRUE)
      BY <1>4, <2>1, <2>2, <2>5
    <3> QED BY <2>1, <2>5, <2>10, <3>1 DEF RowIsProven, Approved
  <2> QED BY <1>1, <1>2, <1>4, <2>9, <2>11, <2>12, OneReimbursementMoves DEF ReimbursementsInv
<1> QED BY <1>3, <1>4 DEF Decide

LEMMA RecordPaymentKeeps ==
  ASSUME ReimbursementsInv, NEW id \in Nat, NEW version \in Nat, NEW ref \in References,
         RecordPayment(id, version, ref)
  PROVE  ReimbursementsInv'
<1> DEFINE row0 == reimbursements[id]
<1>1. /\ id \in Reimbursed /\ row0.status = "approved" /\ UNCHANGED <<call, destination>>
      /\ \A j \in Reimbursed : reimbursements[j].reference # ref
  BY DEF RecordPayment, TakenByAnother
<1>2. row0 \in ReimbursementRows /\ RowIsProven(id, row0) /\ destination.account \in Nat
  BY <1>1, ReimbursedAre DEF ReimbursementsInv
<1>3. PICK r : r = [row0 EXCEPT !.status = "paid", !.paidTo = destination.account, !.reference = ref]
  OBVIOUS
<1>4. r = [status |-> "paid", by |-> row0.by, key |-> row0.key, version |-> row0.version,
           decidedBy |-> row0.decidedBy, proof |-> row0.proof, paidTo |-> destination.account, reference |-> ref]
  BY <1>2, <1>3 DEF ReimbursementRows
<1>5. PICK new : new = [r EXCEPT !.version = @ + 1]
  OBVIOUS
<1>6. reimbursements' = [reimbursements EXCEPT ![id] = new]
  BY <1>3, <1>5 DEF RecordPayment, Save
<1>7. new = [status |-> "paid", by |-> row0.by, key |-> row0.key, version |-> row0.version + 1,
             decidedBy |-> row0.decidedBy, proof |-> row0.proof, paidTo |-> destination.account, reference |-> ref]
  BY <1>4, <1>5
<1>8. new \in ReimbursementRows
  BY <1>2, <1>7 DEF ReimbursementRows
<1>9. RowIsProven(id, new)
  BY <1>1, <1>2, <1>7, ReimbursementAssumption DEF RowIsProven, Approved
<1>10. \A j \in Reimbursed : reimbursements[j].reference # new.reference
  BY <1>1, <1>7
<1> QED BY <1>1, <1>6, <1>8, <1>9, <1>10, OneReimbursementMoves DEF ReimbursementsInv

LEMMA NextKeepsReimbursementsInv ==
  ReimbursementsInv /\ [ReimbursementsNext]_reimbursementVars => ReimbursementsInv'
<1> SUFFICES ASSUME ReimbursementsInv, [ReimbursementsNext]_reimbursementVars PROVE ReimbursementsInv'
  OBVIOUS
<1>1. ASSUME UNCHANGED <<reimbursements, call>>,
             destination' \in [account : Nat, status : {"none", "pending", "verified", "rejected"}]
      PROVE  ReimbursementsInv'
  BY <1>1 DEF ReimbursementsInv, ReferencesDiffer, Reimbursed
<1>2. CASE DestinationMoves
  <2>1. destination' \in [account : Nat, status : {"none", "pending", "verified", "rejected"}]
    BY <1>2 DEF DestinationMoves, ReimbursementsInv
  <2> QED BY <1>1, <1>2, <2>1 DEF DestinationMoves
<1>3. CASE OrderCaptured \/ UNCHANGED reimbursementVars
  BY <1>1, <1>3 DEF OrderCaptured, reimbursementVars, ReimbursementsInv
<1>4. ASSUME NEW a \in Operators, NEW ref, Confirm(a, ref) PROVE ReimbursementsInv'
  BY <1>1, <1>4 DEF Confirm, ReimbursementsInv
<1>5. ASSUME NEW source, NEW ref, SubmitTransfer(source, ref) PROVE ReimbursementsInv'
  BY <1>1, <1>5 DEF SubmitTransfer, ReimbursementsInv
<1>6. \A x \in 1..MaxReimbursements : x \in Nat
  OBVIOUS
<1>7. \A x \in 1..2 : x \in Nat
  OBVIOUS
<1> QED BY <1>2, <1>3, <1>4, <1>5, <1>6, <1>7, RequestKeeps, DecideKeeps, SpendProofKeeps, RecordPaymentKeeps
        DEF ReimbursementsNext

(* A reimbursement is paid only after another admin than its preparer      *)
(* approved it with the password confirmed for that version, and no bank   *)
(* transfer is recorded for two of them, however decisions, retries and    *)
(* transfers interleave (reimbursement_usecase.go Decide, RecordPayment).  *)
THEOREM AlwaysPaidByTwoAdmins == ReimbursementsSpec => []PaidByTwoAdmins
<1>1. ReimbursementsInv => PaidByTwoAdmins
  <2> SUFFICES ASSUME ReimbursementsInv, NEW i \in Reimbursed, reimbursements[i].status = "paid"
               PROVE  /\ reimbursements[i].decidedBy \in Operators \ {reimbursements[i].by}
                      /\ reimbursements[i].proof = ReimbursementDecisionRef(i, 1, TRUE)
                      /\ \A j \in Reimbursed \ {i} : reimbursements[j].reference # reimbursements[i].reference
    BY DEF PaidByTwoAdmins
  <2>1. RowIsProven(i, reimbursements[i])
    BY DEF ReimbursementsInv
  <2> QED BY <2>1 DEF RowIsProven, Approved, ReimbursementsInv, ReferencesDiffer
<1> QED BY <1>1, InitHasReimbursementsInv, NextKeepsReimbursementsInv, PTL DEF ReimbursementsSpec

-----------------------------------------------------------------------------
(***************************************************************************)
(* Sums over finite sets.  A family of parts of a finite set has a smallest *)
(* member; what fails for some part fails for a smallest one.  So folds    *)
(* exist and are unique, and a sum does not depend on the order its        *)
(* elements are taken in.                                                  *)
(***************************************************************************)
(* A set of parts of a finite set has a smallest one: induction over       *)
(* finite sets, without an operator as a parameter.                        *)
LEMMA SmallestPart ==
  ASSUME NEW S, IsFiniteSet(S), NEW B, B \subseteq SUBSET S, B # {}
  PROVE  \E s \in B : \A t \in B : t \subseteq s => t = s
<1>1. IsWellFoundedOn(StrictSubsetOrdering(S), SUBSET S)
  BY FS_StrictSubsetOrderingWellFounded, FS_FiniteSubsetsOfFinite
<1>2. PICK s \in B : \A t \in B : ~(<<t, s>> \in StrictSubsetOrdering(S))
  BY <1>1, WFMin
<1>3. ASSUME NEW t \in B, t \subseteq s, t # s PROVE FALSE
  BY <1>2, <1>3 DEF StrictSubsetOrdering
<1> QED BY <1>2, <1>3

Pick(s) == CHOOSE x \in s : TRUE

LEMMA PickIsIn == ASSUME NEW s, s # {} PROVE Pick(s) \in s /\ s \ {Pick(s)} \subseteq s /\ s \ {Pick(s)} # s
<1>1. Pick(s) \in s
  BY DEF Pick
<1> QED BY <1>1

(* g folds step over every part of S.                                      *)
Folds(g, step, base, S) ==
  g = [s \in SUBSET S |-> IF s = {} THEN base ELSE step[<<Pick(s), g[s \ {Pick(s)}]>>]]

LEMMA FoldAt ==
  ASSUME NEW g, NEW step, NEW base, NEW S, Folds(g, step, base, S)
  PROVE  /\ g[{}] = base
         /\ \A s \in SUBSET S : s # {} => g[s] = step[<<Pick(s), g[s \ {Pick(s)}]>>]
<1>1. \A s \in SUBSET S : g[s] = IF s = {} THEN base ELSE step[<<Pick(s), g[s \ {Pick(s)}]>>]
  BY DEF Folds
<1> QED BY <1>1

LEMMA FoldsAgree ==
  ASSUME NEW step, NEW base, NEW S, NEW T, IsFiniteSet(S), NEW g, NEW h,
         Folds(g, step, base, S), Folds(h, step, base, T)
  PROVE  \A s \in SUBSET S : s \subseteq T => g[s] = h[s]
<1>0. PICK Bad : Bad = {s \in SUBSET S : s \subseteq T /\ g[s] # h[s]}
  OBVIOUS
<1>1. SUFFICES ASSUME Bad # {} PROVE FALSE
  BY <1>0
<1>2. PICK s \in Bad : \A t \in Bad : t \subseteq s => t = s
  <2>1. Bad \subseteq SUBSET S
    BY <1>0
  <2> QED BY <1>1, <2>1, SmallestPart
<1>3. s # {} /\ s \in SUBSET S /\ s \in SUBSET T /\ g[s] # h[s]
  BY <1>0, <1>2, FoldAt
<1>4. s \ {Pick(s)} \subseteq s /\ s \ {Pick(s)} # s
  BY <1>3, PickIsIn
<1>5. g[s \ {Pick(s)}] = h[s \ {Pick(s)}]
  BY <1>0, <1>2, <1>3, <1>4
<1>6. g[s] = step[<<Pick(s), g[s \ {Pick(s)}]>>]
  BY <1>3, FoldAt
<1>7. h[s] = step[<<Pick(s), h[s \ {Pick(s)}]>>]
  BY <1>3, FoldAt
<1> QED BY <1>3, <1>5, <1>6, <1>7

LEMMA FoldExists ==
  ASSUME NEW step, NEW base, NEW S, IsFiniteSet(S)
  PROVE  \E g : Folds(g, step, base, S)
<1>0. PICK Bad : Bad = {s \in SUBSET S : ~\E g : Folds(g, step, base, s)}
  OBVIOUS
<1>1. SUFFICES ASSUME Bad # {} PROVE FALSE
  BY <1>0
<1>2. PICK T \in Bad : \A t \in Bad : t \subseteq T => t = T
  <2>1. Bad \subseteq SUBSET S
    BY <1>0
  <2> QED BY <1>1, <2>1, SmallestPart
<1> DEFINE G(s) == CHOOSE g : Folds(g, step, base, s)
           next(s) == IF s = {} THEN base ELSE step[<<Pick(s), G(s \ {Pick(s)})[s \ {Pick(s)}]>>]
           h == [s \in SUBSET T |-> next(s)]
<1>3. \A s \in SUBSET T : s # T => Folds(G(s), step, base, s)
  <2>1. ASSUME NEW s \in SUBSET T, s # T PROVE Folds(G(s), step, base, s)
    <3>1. \E g : Folds(g, step, base, s)
      BY <1>0, <1>2, <2>1
    <3> QED BY <3>1
  <2> QED BY <2>1
<1>4. \A s \in SUBSET T : s # T => IsFiniteSet(s) /\ s \in SUBSET S
  BY <1>0, FS_Subset
<1> HIDE DEF G
<1>5. ASSUME NEW s \in SUBSET T, s # T PROVE G(s)[s] = next(s)
  <2>1. CASE s = {}
    BY <1>3, <1>5, <2>1, FoldAt
  <2>2. CASE s # {}
    <3>1. PICK t : t = s \ {Pick(s)}
      OBVIOUS
    <3>2. t \in SUBSET s /\ t # s /\ t \in SUBSET T /\ t # T
      BY <2>2, <3>1, PickIsIn
    <3>3. G(s)[s] = step[<<Pick(s), G(s)[t]>>]
      <4>1. PICK k : k = G(s) /\ Folds(k, step, base, s)
        BY <1>3, <1>5
      <4>2. k[s] = step[<<Pick(s), k[s \ {Pick(s)}]>>]
        BY <2>2, <4>1, FoldAt
      <4> QED BY <3>1, <4>1, <4>2
    <3>4. G(s)[t] = G(t)[t]
      <4>1. Folds(G(s), step, base, s) /\ Folds(G(t), step, base, t) /\ IsFiniteSet(t)
        BY <1>3, <1>4, <1>5, <3>2
      <4>2. G(t)[t] = G(s)[t]
        BY <4>1, <3>2, FoldsAgree
      <4> QED BY <4>2
    <3> QED BY <2>2, <3>1, <3>3, <3>4
  <2> QED BY <2>1, <2>2
<1>6. ASSUME NEW s \in SUBSET T
      PROVE  next(s) = IF s = {} THEN base ELSE step[<<Pick(s), h[s \ {Pick(s)}]>>]
  <2>1. CASE s = {}
    BY <2>1
  <2>2. CASE s # {}
    <3>1. PICK t : t = s \ {Pick(s)}
      OBVIOUS
    <3>2. t \in SUBSET T /\ t # T
      BY <2>2, <3>1, PickIsIn
    <3>3. h[t] = G(t)[t]
      BY <1>5, <3>2
    <3> QED BY <2>2, <3>1, <3>3
  <2> QED BY <2>1, <2>2
<1>7. Folds(h, step, base, T)
  BY <1>6 DEF Folds
<1> QED BY <1>0, <1>2, <1>7

-----------------------------------------------------------------------------
(* g sums w over every part of S, as MapThenSumSet does.                   *)
Sums(g, w, S) == g = [s \in SUBSET S |-> IF s = {} THEN 0 ELSE w[Pick(s)] + g[s \ {Pick(s)}]]

Total(w, S) == (CHOOSE g : Sums(g, w, S))[S]

Weighs(w, S) == \A x \in S : w[x] \in Int

Adding(w, U) == [p \in U \X Int |-> w[p[1]] + p[2]]

LEMMA AddingAdds ==
  ASSUME NEW U, NEW w, Weighs(w, U), NEW x \in U, NEW n \in Int
  PROVE  Adding(w, U)[<<x, n>>] = w[x] + n /\ w[x] + n \in Int
BY DEF Adding, Weighs

LEMMA FoldsSum ==
  ASSUME NEW U, NEW w, Weighs(w, U), NEW S, S \subseteq U, IsFiniteSet(S),
         NEW g, Folds(g, Adding(w, U), 0, S)
  PROVE  Sums(g, w, S) /\ \A s \in SUBSET S : g[s] \in Int
<1>0. PICK Bad : Bad = {s \in SUBSET S : g[s] \notin Int}
  OBVIOUS
<1>1. \A s \in SUBSET S : g[s] \in Int
  <2>1. SUFFICES ASSUME Bad # {} PROVE FALSE
    BY <1>0
  <2>2. PICK s \in Bad : \A t \in Bad : t \subseteq s => t = s
    <3>1. Bad \subseteq SUBSET S
      BY <1>0
    <3> QED BY <2>1, <3>1, SmallestPart
  <2>3. s # {} /\ s \in SUBSET S
    <3>1. g[{}] = 0 /\ g[s] \notin Int /\ s \in SUBSET S
      BY <1>0, <2>2, FoldAt
    <3> QED BY <3>1
  <2>4. PICK t, x : t = s \ {x} /\ x = Pick(s)
    OBVIOUS
  <2>4a. t \subseteq s /\ t # s /\ x \in U /\ t \in SUBSET S
    BY <2>3, <2>4, PickIsIn
  <2>4b. g[t] \in Int
    BY <1>0, <2>2, <2>4a
  <2>5. g[s] = Adding(w, U)[<<x, g[t]>>]
    BY <2>3, <2>4, FoldAt
  <2>6. g[s] \in Int
    BY <2>4a, <2>4b, <2>5, AddingAdds
  <2> QED BY <1>0, <2>2, <2>6
<1>2. ASSUME NEW s \in SUBSET S
      PROVE  g[s] = IF s = {} THEN 0 ELSE w[Pick(s)] + g[s \ {Pick(s)}]
  <2>1. CASE s = {}
    BY <2>1, FoldAt
  <2>2. CASE s # {}
    <3>1. PICK t, x : t = s \ {x} /\ x = Pick(s)
      OBVIOUS
    <3>2. x \in U /\ t \in SUBSET S
      BY <2>2, <3>1, PickIsIn
    <3>3. g[s] = Adding(w, U)[<<x, g[t]>>] /\ g[t] \in Int
      BY <1>1, <2>2, <3>1, <3>2, FoldAt
    <3>4. g[s] = w[x] + g[t]
      BY <3>2, <3>3, AddingAdds
    <3> QED BY <2>2, <3>1, <3>4
  <2> QED BY <2>1, <2>2
<1>3. g = [s \in SUBSET S |-> g[s]]
  BY DEF Folds
<1>4. Sums(g, w, S)
  BY <1>2, <1>3 DEF Sums
<1> QED BY <1>1, <1>4

LEMMA SumAt ==
  ASSUME NEW g, NEW w, NEW S, Sums(g, w, S)
  PROVE  /\ g[{}] = 0
         /\ \A s \in SUBSET S : s # {} => g[s] = w[Pick(s)] + g[s \ {Pick(s)}]
<1>1. \A s \in SUBSET S : g[s] = IF s = {} THEN 0 ELSE w[Pick(s)] + g[s \ {Pick(s)}]
  BY DEF Sums
<1> QED BY <1>1

LEMMA SumsAgree ==
  ASSUME NEW w, NEW v, NEW S, NEW T, IsFiniteSet(S), NEW g, NEW h,
         Sums(g, w, S), Sums(h, v, T), \A x \in S \cap T : w[x] = v[x]
  PROVE  \A s \in SUBSET S : s \subseteq T => g[s] = h[s]
<1>0. PICK Bad : Bad = {s \in SUBSET S : s \subseteq T /\ g[s] # h[s]}
  OBVIOUS
<1>1. SUFFICES ASSUME Bad # {} PROVE FALSE
  BY <1>0
<1>2. PICK s \in Bad : \A t \in Bad : t \subseteq s => t = s
  <2>1. Bad \subseteq SUBSET S
    BY <1>0
  <2> QED BY <1>1, <2>1, SmallestPart
<1>3. s # {} /\ s \in SUBSET S /\ s \in SUBSET T /\ g[s] # h[s]
  <2>1. g[{}] = 0 /\ h[{}] = 0 /\ g[s] # h[s] /\ s \in SUBSET S /\ s \in SUBSET T
    BY <1>0, <1>2, SumAt
  <2> QED BY <2>1
<1>4. s \ {Pick(s)} \subseteq s /\ s \ {Pick(s)} # s /\ w[Pick(s)] = v[Pick(s)]
  <2>1. Pick(s) \in s
    BY <1>3, PickIsIn
  <2> QED BY <1>3, <2>1
<1>5. g[s \ {Pick(s)}] = h[s \ {Pick(s)}]
  BY <1>0, <1>2, <1>3, <1>4
<1>6. g[s] = w[Pick(s)] + g[s \ {Pick(s)}]
  <2>1. \A t \in SUBSET S : t # {} => g[t] = w[Pick(t)] + g[t \ {Pick(t)}]
    BY SumAt
  <2> QED BY <1>3, <2>1
<1>7. h[s] = v[Pick(s)] + h[s \ {Pick(s)}]
  <2>1. \A t \in SUBSET T : t # {} => h[t] = v[Pick(t)] + h[t \ {Pick(t)}]
    BY SumAt
  <2> QED BY <1>3, <2>1
<1> QED BY <1>3, <1>4, <1>5, <1>6, <1>7

(* The sum over a finite set is what its parts sum to.                     *)
LEMMA TotalOfParts ==
  ASSUME NEW w, NEW S, IsFiniteSet(S), Weighs(w, S)
  PROVE  \E g : Sums(g, w, S) /\ \A s \in SUBSET S : g[s] = Total(w, s) /\ g[s] \in Int
<1>1. PICK g : Sums(g, w, S) /\ \A s \in SUBSET S : g[s] \in Int
  <2>1. PICK g : Folds(g, Adding(w, S), 0, S)
    BY FoldExists
  <2> QED BY <2>1, FoldsSum
<1>2. ASSUME NEW s \in SUBSET S PROVE g[s] = Total(w, s)
  <2>1. IsFiniteSet(s) /\ Weighs(w, s)
    BY FS_Subset DEF Weighs
  <2>2. PICK k : Folds(k, Adding(w, s), 0, s)
    BY <2>1, FoldExists
  <2>3. Sums(k, w, s)
    BY <2>1, <2>2, FoldsSum
  <2>4. PICK h : h = (CHOOSE x : Sums(x, w, s)) /\ Sums(h, w, s)
    BY <2>3
  <2>5. h[s] = g[s]
    BY <1>1, <2>1, <2>4, SumsAgree
  <2> QED BY <2>4, <2>5 DEF Total
<1> QED BY <1>1, <1>2

LEMMA TotalIs ==
  ASSUME NEW w, NEW S, IsFiniteSet(S), Weighs(w, S)
  PROVE  /\ Total(w, S) \in Int /\ Total(w, {}) = 0
         /\ S # {} => Total(w, S) = w[Pick(S)] + Total(w, S \ {Pick(S)})
<1>1. PICK g : Sums(g, w, S) /\ \A s \in SUBSET S : g[s] = Total(w, s) /\ g[s] \in Int
  BY TotalOfParts
<1>2. Total(w, S) \in Int /\ Total(w, {}) = 0
  BY <1>1, SumAt
<1>3. ASSUME S # {} PROVE Total(w, S) = w[Pick(S)] + Total(w, S \ {Pick(S)})
  <2>1. g[S] = w[Pick(S)] + g[S \ {Pick(S)}]
    BY <1>1, <1>3, SumAt
  <2> QED BY <1>1, <2>1
<1> QED BY <1>2, <1>3

(* Whichever element is taken out, the rest sums to as much less.          *)
LEMMA TotalWithout ==
  ASSUME NEW w, NEW S, IsFiniteSet(S), Weighs(w, S), NEW x \in S
  PROVE  Total(w, S) = w[x] + Total(w, S \ {x}) /\ Total(w, S \ {x}) \in Int /\ Total(w, S) \in Int
<1>0. PICK Bad : Bad = {s \in SUBSET S : \E y \in s : Total(w, s) # w[y] + Total(w, s \ {y})}
  OBVIOUS
<1>1. \A s \in SUBSET S : IsFiniteSet(s) /\ Weighs(w, s) /\ Total(w, s) \in Int
  <2>1. ASSUME NEW s \in SUBSET S PROVE IsFiniteSet(s) /\ Weighs(w, s)
    BY FS_Subset DEF Weighs
  <2> QED BY <2>1, TotalIs
<1>2. Bad = {}
  <2>1. SUFFICES ASSUME Bad # {} PROVE FALSE
    OBVIOUS
  <2>2. PICK s \in Bad : \A t \in Bad : t \subseteq s => t = s
    <3>1. Bad \subseteq SUBSET S
      BY <1>0
    <3> QED BY <2>1, <3>1, SmallestPart
  <2>3. PICK y \in s : Total(w, s) # w[y] + Total(w, s \ {y})
    BY <1>0, <2>2
  <2>4. PICK p : p = Pick(s) /\ p \in s
    BY <2>3, PickIsIn
  <2>5. Total(w, s) = w[p] + Total(w, s \ {p})
    BY <1>0, <1>1, <2>2, <2>3, <2>4, TotalIs
  <2>6. p # y
    BY <2>3, <2>5
  <2>7. PICK t, u, r : t = s \ {p} /\ u = s \ {y} /\ r = s \ {p, y}
    OBVIOUS
  <2>8. /\ s \in SUBSET S /\ t \in SUBSET S /\ u \in SUBSET S /\ r \in SUBSET S
        /\ t # s /\ u # s /\ t \subseteq s /\ u \subseteq s /\ y \in t /\ p \in u /\ t \ {y} = r /\ u \ {p} = r
    BY <1>0, <2>2, <2>3, <2>4, <2>6, <2>7
  <2>9. Total(w, t) = w[y] + Total(w, r)
    BY <1>0, <2>2, <2>8
  <2>10. Total(w, u) = w[p] + Total(w, r)
    BY <1>0, <2>2, <2>8
  <2>11. w[y] \in Int /\ w[p] \in Int /\ Total(w, r) \in Int
    BY <1>1, <2>8 DEF Weighs
  <2>12. Total(w, s) = w[y] + Total(w, u)
    BY <2>5, <2>7, <2>9, <2>10, <2>11
  <2> QED BY <2>3, <2>7, <2>12
<1>3. Total(w, S) = w[x] + Total(w, S \ {x})
  BY <1>0, <1>2
<1> QED BY <1>1, <1>3

LEMMA TotalOfUnion ==
  ASSUME NEW w, NEW A, NEW B, IsFiniteSet(A), IsFiniteSet(B), A \cap B = {}, Weighs(w, A), Weighs(w, B)
  PROVE  Total(w, A \cup B) = Total(w, A) + Total(w, B)
<1>0. PICK Bad : Bad = {s \in SUBSET B : Total(w, A \cup s) # Total(w, A) + Total(w, s)}
  OBVIOUS
<1>1. \A s \in SUBSET B : /\ IsFiniteSet(s) /\ Weighs(w, s) /\ Total(w, s) \in Int
                          /\ IsFiniteSet(A \cup s) /\ Weighs(w, A \cup s) /\ Total(w, A \cup s) \in Int
  <2>1. ASSUME NEW s \in SUBSET B PROVE IsFiniteSet(s) /\ Weighs(w, s) /\ IsFiniteSet(A \cup s) /\ Weighs(w, A \cup s)
    BY FS_Subset, FS_Union DEF Weighs
  <2> QED BY <2>1, TotalIs
<1>2. Total(w, A) \in Int /\ Total(w, {}) = 0
  BY TotalIs
<1>3. Bad = {}
  <2>1. SUFFICES ASSUME Bad # {} PROVE FALSE
    OBVIOUS
  <2>2. PICK s \in Bad : \A t \in Bad : t \subseteq s => t = s
    <3>1. Bad \subseteq SUBSET B
      BY <1>0
    <3> QED BY <2>1, <3>1, SmallestPart
  <2>3. s # {}
    <3>1. A \cup {} = A /\ Total(w, A) = Total(w, A) + 0
      BY <1>2
    <3> QED BY <1>0, <1>2, <2>2, <3>1
  <2>4. PICK x \in s : TRUE
    BY <2>3
  <2>5a. PICK t, big : t = s \ {x} /\ big = A \cup s
    OBVIOUS
  <2>5. /\ t = s \ {x} /\ big = A \cup s /\ t \in SUBSET B /\ s \in SUBSET B /\ t # s /\ t \subseteq s
        /\ big \ {x} = A \cup t /\ x \in big
    BY <1>0, <2>2, <2>4, <2>5a
  <2>6. Total(w, A \cup t) = Total(w, A) + Total(w, t)
    BY <1>0, <2>2, <2>5
  <2>7. Total(w, s) = w[x] + Total(w, t)
    BY <1>1, <2>4, <2>5, TotalWithout
  <2>8. Total(w, big) = w[x] + Total(w, A \cup t)
    <3>1. IsFiniteSet(big) /\ Weighs(w, big) /\ x \in big
      BY <1>1, <2>5
    <3>2. Total(w, big) = w[x] + Total(w, big \ {x})
      BY <3>1, TotalWithout
    <3> QED BY <2>5, <3>2
  <2>9. w[x] \in Int /\ Total(w, t) \in Int
    BY <1>1, <2>4, <2>5 DEF Weighs
  <2>10. Total(w, A \cup s) = Total(w, A) + Total(w, s)
    BY <1>2, <2>5, <2>6, <2>7, <2>8, <2>9
  <2> QED BY <1>0, <2>2, <2>10
<1> QED BY <1>0, <1>3

LEMMA TotalSame ==
  ASSUME NEW w, NEW v, NEW S, IsFiniteSet(S), Weighs(w, S), \A x \in S : w[x] = v[x]
  PROVE  Total(w, S) = Total(v, S)
<1>1. Weighs(v, S)
  BY DEF Weighs
<1>2. PICK g : Sums(g, w, S) /\ \A s \in SUBSET S : g[s] = Total(w, s) /\ g[s] \in Int
  BY TotalOfParts
<1>3. PICK h : Sums(h, v, S) /\ \A s \in SUBSET S : h[s] = Total(v, s) /\ h[s] \in Int
  BY <1>1, TotalOfParts
<1>4. \A s \in SUBSET S : s \subseteq S => g[s] = h[s]
  <2>1. \A x \in S \cap S : w[x] = v[x]
    OBVIOUS
  <2>2. Sums(g, w, S) /\ Sums(h, v, S)
    BY <1>2, <1>3
  <2> QED BY <2>1, <2>2, SumsAgree
<1>5. g[S] = h[S]
  BY <1>4
<1> QED BY <1>2, <1>3, <1>5

(* One weight changes.                                                     *)
LEMMA TotalChanges ==
  ASSUME NEW w, NEW v, NEW S, IsFiniteSet(S), Weighs(w, S), NEW y \in S, v[y] \in Int,
         \A x \in S \ {y} : w[x] = v[x]
  PROVE  Total(v, S) = Total(w, S) + v[y] - w[y]
<1>1. PICK r : r = S \ {y}
  OBVIOUS
<1>2. Weighs(v, S) /\ Weighs(w, r) /\ IsFiniteSet(r) /\ \A x \in r : w[x] = v[x]
  BY <1>1, FS_Subset DEF Weighs
<1>3. Total(w, r) = Total(v, r)
  BY <1>2, TotalSame
<1>4. Total(w, S) = w[y] + Total(w, r) /\ Total(w, r) \in Int
  BY <1>1, TotalWithout
<1>5. Total(v, S) = v[y] + Total(v, r)
  BY <1>1, <1>2, TotalWithout
<1>6. w[y] \in Int
  BY DEF Weighs
<1> QED BY <1>3, <1>4, <1>5, <1>6

LEMMA TotalAtMost ==
  ASSUME NEW w, NEW v, NEW S, IsFiniteSet(S), Weighs(w, S), Weighs(v, S), \A x \in S : w[x] <= v[x]
  PROVE  Total(w, S) <= Total(v, S)
<1>0. PICK Bad : Bad = {s \in SUBSET S : ~(Total(w, s) <= Total(v, s))}
  OBVIOUS
<1>1. \A s \in SUBSET S : IsFiniteSet(s) /\ Weighs(w, s) /\ Weighs(v, s)
  BY FS_Subset DEF Weighs
<1>2. Total(w, {}) = 0 /\ Total(v, {}) = 0
  BY TotalIs
<1>3. Bad = {}
  <2>1. SUFFICES ASSUME Bad # {} PROVE FALSE
    OBVIOUS
  <2>2. PICK s \in Bad : \A t \in Bad : t \subseteq s => t = s
    <3>1. Bad \subseteq SUBSET S
      BY <1>0
    <3> QED BY <2>1, <3>1, SmallestPart
  <2>3. s # {}
    <3>1. ~(Total(w, s) <= Total(v, s))
      BY <1>0, <2>2
    <3> QED BY <1>2, <3>1
  <2>4. PICK x \in s : TRUE
    BY <2>3
  <2>5a. PICK t : t = s \ {x}
    OBVIOUS
  <2>5. t = s \ {x} /\ t \subseteq s /\ t \in SUBSET S /\ s \in SUBSET S /\ t # s
    BY <1>0, <2>2, <2>4, <2>5a
  <2>6. Total(w, t) <= Total(v, t)
    BY <1>0, <2>2, <2>5
  <2>7. Total(w, s) = w[x] + Total(w, t) /\ Total(w, t) \in Int
    BY <1>1, <2>4, <2>5, TotalWithout
  <2>8. Total(v, s) = v[x] + Total(v, t) /\ Total(v, t) \in Int
    BY <1>1, <2>4, <2>5, TotalWithout
  <2>9. w[x] \in Int /\ v[x] \in Int /\ w[x] <= v[x]
    BY <2>4, <2>5 DEF Weighs
  <2>10. Total(w, s) <= Total(v, s)
    BY <2>6, <2>7, <2>8, <2>9
  <2> QED BY <1>0, <2>2, <2>10
<1> QED BY <1>0, <1>3

(* What a sum of the model is: a MapThenSumSet.                            *)
LEMMA TotalIsSum ==
  ASSUME NEW w, NEW S, IsFiniteSet(S), Weighs(w, S), NEW g, Sums(g, w, S)
  PROVE  g[S] = Total(w, S)
<1>1. PICK h : Sums(h, w, S) /\ \A s \in SUBSET S : h[s] = Total(w, s) /\ h[s] \in Int
  BY TotalOfParts
<1>2. g[S] = h[S]
  BY <1>1, SumsAgree
<1> QED BY <1>1, <1>2

-----------------------------------------------------------------------------
(***************************************************************************)
(* The sums of the ledger, and what one refund and the refunds before an   *)
(* ingest write.                                                           *)
(***************************************************************************)
(* The sums of the ledger.                                                 *)
Amounts(E) == IsFiniteSet(E) /\ \A e \in E : e.amount \in Int

LEMMA AmountsAreWeights ==
  ASSUME NEW U, NEW E, E \subseteq U, Amounts(U)
  PROVE  SumAmounts(E) = Total([e \in U |-> e.amount], E) /\ Weighs([e \in U |-> e.amount], E) /\ IsFiniteSet(E)
<1>1. PICK w : w = [e \in U |-> e.amount]
  OBVIOUS
<1>2. IsFiniteSet(E) /\ Weighs(w, E)
  BY <1>1, FS_Subset DEF Amounts, Weighs
<1> DEFINE Amounting(g) == g = [s \in SUBSET E |-> IF s = {} THEN 0 ELSE Pick(s).amount + g[s \ {Pick(s)}]]
<1>3. \A g : Amounting(g) <=> Sums(g, w, E)
  <2>1. \A s \in SUBSET E : s # {} => w[Pick(s)] = Pick(s).amount
    <3>1. ASSUME NEW s \in SUBSET E, s # {} PROVE w[Pick(s)] = Pick(s).amount
      <4>1. Pick(s) \in U
        BY <3>1, PickIsIn
      <4> QED BY <1>1, <4>1
    <3> QED BY <3>1
  <2>2. ASSUME NEW g
        PROVE  [s \in SUBSET E |-> IF s = {} THEN 0 ELSE Pick(s).amount + g[s \ {Pick(s)}]]
                 = [s \in SUBSET E |-> IF s = {} THEN 0 ELSE w[Pick(s)] + g[s \ {Pick(s)}]]
    BY <2>1
  <2> QED BY <2>2 DEF Sums
<1>4. SumAmounts(E) = (CHOOSE g : Amounting(g))[E]
  BY DEF SumAmounts, MapThenSumSet, MapThenFoldSet, Pick
<1> HIDE DEF Amounting
<1>5. \E g : Amounting(g)
  BY <1>2, <1>3, TotalOfParts
<1>6. PICK g : Amounting(g) /\ SumAmounts(E) = g[E]
  BY <1>4, <1>5
<1>7. SumAmounts(E) = Total(w, E)
  BY <1>2, <1>3, <1>6, TotalIsSum
<1> QED BY <1>1, <1>2, <1>7

LEMMA AmountsOfUnion ==
  ASSUME NEW A, NEW B, Amounts(A), Amounts(B), A \cap B = {}
  PROVE  /\ SumAmounts(A \cup B) = SumAmounts(A) + SumAmounts(B)
         /\ SumAmounts(A) \in Int /\ SumAmounts(B) \in Int /\ Amounts(A \cup B)
<1>1. PICK U, w : U = A \cup B /\ w = [e \in U |-> e.amount]
  OBVIOUS
<1>2. A \subseteq U /\ B \subseteq U /\ Amounts(U)
  BY <1>1, FS_Union DEF Amounts
<1>3. /\ SumAmounts(A) = Total(w, A) /\ Weighs(w, A) /\ IsFiniteSet(A)
      /\ SumAmounts(B) = Total(w, B) /\ Weighs(w, B) /\ IsFiniteSet(B)
      /\ SumAmounts(U) = Total(w, U)
  BY <1>1, <1>2, AmountsAreWeights
<1>4. Total(w, A \cup B) = Total(w, A) + Total(w, B)
  BY <1>3, TotalOfUnion
<1>5. Total(w, A) \in Int /\ Total(w, B) \in Int
  BY <1>3, TotalIs
<1> QED BY <1>1, <1>2, <1>3, <1>4, <1>5

LEMMA AmountsOfFew ==
  /\ Amounts({}) /\ SumAmounts({}) = 0
  /\ \A e : e.amount \in Int => Amounts({e}) /\ SumAmounts({e}) = e.amount
<1>1. Amounts({})
  BY FS_EmptySet DEF Amounts
<1>2. SumAmounts({}) = 0
  BY <1>1, AmountsAreWeights, TotalIs
<1>3. ASSUME NEW e, e.amount \in Int PROVE Amounts({e}) /\ SumAmounts({e}) = e.amount
  <2>1. Amounts({e})
    BY <1>3, FS_Singleton DEF Amounts
  <2>2. PICK S, w : S = {e} /\ w = [x \in {e} |-> x.amount]
    OBVIOUS
  <2>3. e \in S /\ SumAmounts(S) = Total(w, S) /\ Weighs(w, S) /\ IsFiniteSet(S) /\ w[e] = e.amount /\ S \ {e} = {}
    <3>1. S \subseteq S /\ Amounts(S) /\ w = [x \in S |-> x.amount]
      BY <2>1, <2>2
    <3>2. SumAmounts(S) = Total(w, S) /\ Weighs(w, S) /\ IsFiniteSet(S)
      <4>1. /\ SumAmounts(S) = Total([x \in S |-> x.amount], S) /\ Weighs([x \in S |-> x.amount], S)
            /\ IsFiniteSet(S)
        BY <3>1, AmountsAreWeights
      <4> QED BY <3>1, <4>1
    <3> QED BY <2>2, <3>2
  <2>4. Total(w, S) = w[e] + Total(w, S \ {e})
    BY <2>3, TotalWithout
  <2>5. Total(w, {}) = 0
    BY <2>3, TotalIs
  <2>6. SumAmounts(S) = e.amount + 0
    BY <2>3, <2>4, <2>5
  <2>7. SumAmounts({e}) = e.amount
    BY <1>3, <2>2, <2>6
  <2> QED BY <2>1, <2>7
<1> QED BY <1>1, <1>2, <1>3

LEMMA BasesAreInt ==
  ASSUME NEW E, IsFiniteSet(E), \A e \in E : e.base \in Int
  PROVE  MapThenSumSet(LAMBDA e : e.base, E) \in Int
<1>1. PICK w : w = [e \in E |-> e.base]
  OBVIOUS
<1>2. Weighs(w, E)
  BY <1>1 DEF Weighs
<1> DEFINE Based(g) == g = [s \in SUBSET E |-> IF s = {} THEN 0 ELSE Pick(s).base + g[s \ {Pick(s)}]]
<1>3. \A g : Based(g) <=> Sums(g, w, E)
  <2>1. \A s \in SUBSET E : s # {} => w[Pick(s)] = Pick(s).base
    <3>1. ASSUME NEW s \in SUBSET E, s # {} PROVE w[Pick(s)] = Pick(s).base
      <4>1. Pick(s) \in E
        BY <3>1, PickIsIn
      <4> QED BY <1>1, <4>1
    <3> QED BY <3>1
  <2>2. ASSUME NEW g
        PROVE  [s \in SUBSET E |-> IF s = {} THEN 0 ELSE Pick(s).base + g[s \ {Pick(s)}]]
                 = [s \in SUBSET E |-> IF s = {} THEN 0 ELSE w[Pick(s)] + g[s \ {Pick(s)}]]
    BY <2>1
  <2> QED BY <2>2 DEF Sums
<1>4. MapThenSumSet(LAMBDA e : e.base, E) = (CHOOSE g : Based(g))[E]
  BY DEF MapThenSumSet, MapThenFoldSet, Pick
<1> HIDE DEF Based
<1>5. \E g : Based(g)
  BY <1>2, <1>3, TotalOfParts
<1>6. PICK g : Based(g) /\ MapThenSumSet(LAMBDA e : e.base, E) = g[E]
  BY <1>4, <1>5
<1>7. g[E] = Total(w, E)
  BY <1>2, <1>3, <1>6, TotalIsSum
<1> QED BY <1>2, <1>6, <1>7, TotalIs

LEMMA MinOfTwo ==
  ASSUME NEW S, NEW a \in Int, NEW b \in Int, S = {a, b}
  PROVE  Min(S) \in Int /\ Min(S) <= a /\ Min(S) <= b
<1>1. \E x \in {a, b} : \A y \in {a, b} : x <= y
  OBVIOUS
<1> QED BY <1>1 DEF Min

LEMMA MaxOfTwo == \A a, b \in Int : Max({a, b}) \in {a, b} /\ Max({a, b}) >= a /\ Max({a, b}) >= b
<1> SUFFICES ASSUME NEW a \in Int, NEW b \in Int PROVE Max({a, b}) \in {a, b} /\ Max({a, b}) >= a /\ Max({a, b}) >= b
  OBVIOUS
<1>1. \E x \in {a, b} : \A y \in {a, b} : x >= y
  OBVIOUS
<1> QED BY <1>1 DEF Max

LEMMA CommissionType == Commission \in Nat /\ (Commission > 0 => Subtotal > 0)
<1>1. PICK q : q = Subtotal * CommissionBps
  OBVIOUS
<1>2. q \in Nat /\ (Subtotal = 0 => q = 0)
  BY <1>1, SettlementAssumption
<1>3. Commission = q \div 10000
  BY <1>1 DEF Commission
<1> QED BY <1>2, <1>3, SettlementAssumption

(* An entry of ledger E says where it comes from.                          *)
EntryIsSound(E, vos, e) ==
  /\ e.type \in {"sale", "shipping", "commission", "refund", "commission_reversal", "adjustment", "payout"}
  /\ e.amount \in Int /\ e.base \in Int
  /\ e.type \in {"sale", "shipping", "commission"} => e.vo \in vos /\ e.ref = e.vo
  /\ e.type \in {"sale", "shipping", "commission_reversal"} => e.amount > 0
  /\ e.type = "commission" => e.amount < 0 /\ \E s \in E : s.type = "sale" /\ s.vo = e.vo
  /\ e.type \in {"refund", "commission_reversal"} =>
       e.ref \in RefundIds /\ e.vo = RefundOrder[e.ref] /\ e.vo \in vos
  /\ e.type = "refund" => e.amount < 0
  /\ e.type = "commission_reversal" => \E s \in E : s.type = "refund" /\ s.ref = e.ref
  /\ e.type \in {"adjustment", "payout"} => e.vo = "none"

Reversals(E, vo) == {e \in E : e.type = "commission_reversal" /\ e.vo = vo}
Charged(E) == {e.ref : e \in {x \in E : x.type = "refund"}}

(* Ledger E of the vendor orders vos, charged with these refunds.          *)
LedgerSound(E, vos, charged) ==
  /\ IsFiniteSet(E)
  /\ \A e \in E : EntryIsSound(E, vos, e)
  /\ Charged(E) = charged
  /\ \A vo \in vos : SaleEntries(vo) \subseteq E

(* No more commission is given back than was taken.                        *)
Capped(E, vo) == SumAmounts(Reversals(E, vo)) <= Commission

LEMMA SoundAmounts ==
  ASSUME NEW E, NEW vos, NEW charged, LedgerSound(E, vos, charged)
  PROVE  \A S \in SUBSET E : Amounts(S) /\ SumAmounts(S) \in Int
<1>1. ASSUME NEW S \in SUBSET E PROVE Amounts(S)
  BY FS_Subset DEF Amounts, LedgerSound, EntryIsSound
<1>2. ASSUME NEW S \in SUBSET E PROVE SumAmounts(S) \in Int
  BY <1>1, AmountsOfUnion, AmountsOfFew
<1> QED BY <1>1, <1>2

(* What one refund writes, once.                                           *)
RefundRows(r, part, give) ==
  {Entry("refund", RefundOrder[r], r, -RefundAmount[r], part)}
  \cup IF give > 0 THEN {Entry("commission_reversal", RefundOrder[r], r, give, 0)} ELSE {}

LEMMA RefundEntriesAre ==
  ASSUME NEW E, NEW vos, NEW charged, LedgerSound(E, vos, charged), NEW r \in RefundIds, RefundOrder[r] \in vos
  PROVE  \E part, give \in Int :
           /\ RefundEntries(E, r) = RefundRows(r, part, give)
           /\ Capped(E, RefundOrder[r]) => give + SumAmounts(Reversals(E, RefundOrder[r])) <= Commission
<1>1. PICK vo, reversed, taken :
        /\ vo = RefundOrder[r] /\ reversed = SumAmounts(Reversals(E, vo))
        /\ taken = MapThenSumSet(LAMBDA e : e.base, {e \in E : e.type = "refund" /\ e.vo = vo})
  OBVIOUS
<1>2. vo \in VendorOrders /\ RefundAmount[r] \in Int
  BY <1>1, SettlementAssumption
<1>3. reversed \in Int
  <2>1. Reversals(E, vo) \in SUBSET E
    BY DEF Reversals
  <2> QED BY <1>1, <1>2, <2>1, SoundAmounts
<1>4. taken \in Int
  <2>1. PICK S : S = {e \in E : e.type = "refund" /\ e.vo = vo}
    OBVIOUS
  <2>2. IsFiniteSet(S) /\ \A e \in S : e.base \in Int
    BY <2>1, FS_Subset DEF LedgerSound, EntryIsSound
  <2>3. MapThenSumSet(LAMBDA e : e.base, S) \in Int
    BY <2>2, BasesAreInt
  <2> QED BY <1>1, <2>1, <2>3
<1>5. PICK part : part = Min({RefundAmount[r], Max({0, Subtotal - taken})})
  OBVIOUS
<1>6. part \in Int
  <2>1. 0 \in Int /\ Subtotal - taken \in Int
    BY <1>4, SettlementAssumption
  <2>2. Max({0, Subtotal - taken}) \in Int
    BY <2>1, MaxOfTwo
  <2>3. PICK pool : pool = {RefundAmount[r], Max({0, Subtotal - taken})} /\ part = Min(pool)
    BY <1>5
  <2> QED BY <1>2, <2>2, <2>3, MinOfTwo
<1> DEFINE pool == {(part * CommissionBps) \div 10000, Max({0, Commission - reversed})}
<1> HIDE DEF pool
<1>7. PICK give : give = Min(pool)
  OBVIOUS
<1>8. give \in Int /\ (reversed <= Commission => give <= Commission - reversed)
  <2>1. (part * CommissionBps) \div 10000 \in Int
    <3>1. PICK q : q = part * CommissionBps
      OBVIOUS
    <3>2. q \in Int
      BY <1>6, <3>1, SettlementAssumption
    <3> QED BY <3>1, <3>2
  <2>2. Commission - reversed \in Int /\ (reversed <= Commission => Commission - reversed >= 0)
    BY <1>3, CommissionType
  <2>3. PICK left, share : left = Commission - reversed /\ share = (part * CommissionBps) \div 10000
    OBVIOUS
  <2>4. left \in Int /\ share \in Int /\ 0 \in Int
    BY <2>1, <2>2, <2>3
  <2>5. PICK most : most = Max({0, left})
    OBVIOUS
  <2>6. most \in Int /\ (left >= 0 => most = left)
    <3>1. most \in {0, left} /\ most >= left /\ most >= 0
      BY <2>4, <2>5, MaxOfTwo
    <3> QED BY <2>4, <3>1
  <2>7. pool = {share, most}
    BY <2>3, <2>5 DEF pool
  <2>8. give \in Int /\ give <= most
    BY <1>7, <2>4, <2>6, <2>7, MinOfTwo
  <2> QED BY <2>2, <2>3, <2>6, <2>8
<1>9. RefundEntries(E, r) = RefundRows(r, part, give)
  BY <1>1, <1>5, <1>7 DEF pool, RefundEntries, RefundRows, RefundAttribution, Reversals
<1>10. reversed <= Commission => give + reversed <= Commission
  BY <1>3, <1>8, CommissionType
<1> QED BY <1>1, <1>6, <1>8, <1>9, <1>10 DEF Capped

LEMMA RowsAppended ==
  ASSUME NEW E, NEW vos, NEW charged, LedgerSound(E, vos, charged), NEW r \in RefundIds, RefundOrder[r] \in vos,
         r \notin charged, NEW part \in Int, NEW give \in Int
  PROVE  /\ LedgerSound(E \cup RefundRows(r, part, give), vos, charged \cup {r})
         /\ AppendEntries(E, RefundRows(r, part, give)) = E \cup RefundRows(r, part, give)
         /\ \A e \in RefundRows(r, part, give) :
              e.type \in {"refund", "commission_reversal"} /\ e.vo = RefundOrder[r] /\ e \notin E
         /\ give + SumAmounts(Reversals(E, RefundOrder[r])) <= Commission /\ Capped(E, RefundOrder[r])
              => Capped(E \cup RefundRows(r, part, give), RefundOrder[r])
<1>1. PICK new, F, vo : new = RefundRows(r, part, give) /\ F = E \cup new /\ vo = RefundOrder[r]
  OBVIOUS
<1>2. PICK n, back : /\ n = Entry("refund", vo, r, -RefundAmount[r], part)
                     /\ back = Entry("commission_reversal", vo, r, give, 0)
  OBVIOUS
<1>3. new = {n} \cup (IF give > 0 THEN {back} ELSE {})
  BY <1>1, <1>2 DEF RefundRows
<1>4. /\ n.type = "refund" /\ n.ref = r /\ n.vo = vo /\ n.amount = -RefundAmount[r] /\ n.base = part
      /\ back.type = "commission_reversal" /\ back.ref = r /\ back.vo = vo /\ back.amount = give /\ back.base = 0
  BY <1>2 DEF Entry
<1>5. \A e \in E : e.type \in {"refund", "commission_reversal"} => e.ref # r
  BY DEF LedgerSound, EntryIsSound, Charged
<1>6. \A e \in new : e.type \in {"refund", "commission_reversal"} /\ e.ref = r /\ e.vo = vo /\ e \notin E
  BY <1>3, <1>4, <1>5
<1>7. AppendEntries(E, new) = F
  BY <1>1, <1>5, <1>6 DEF AppendEntries
<1>8. IsFiniteSet(F)
  <2>1. IsFiniteSet({n}) /\ IsFiniteSet({back}) /\ IsFiniteSet({})
    BY FS_Singleton, FS_EmptySet
  <2>2. IsFiniteSet(IF give > 0 THEN {back} ELSE {})
    BY <2>1
  <2>3. IsFiniteSet(new)
    BY <1>3, <2>1, <2>2, FS_Union
  <2> QED BY <1>1, <2>3, FS_Union DEF LedgerSound
<1>9. ASSUME NEW e \in F PROVE EntryIsSound(F, vos, e)
  <2>1. CASE e \in E
    BY <1>1, <2>1 DEF LedgerSound, EntryIsSound
  <2>2. CASE e = n
    BY <1>1, <1>4, <2>2, SettlementAssumption DEF EntryIsSound
  <2>3. CASE e = back /\ give > 0
    BY <1>1, <1>3, <1>4, <2>3 DEF EntryIsSound
  <2> QED BY <1>1, <1>3, <2>1, <2>2, <2>3
<1>10. Charged(F) = charged \cup {r}
  <2>1. \A e \in F : e.type = "refund" <=> (e \in E /\ e.type = "refund") \/ e = n
    BY <1>1, <1>3, <1>4
  <2>2. {e \in F : e.type = "refund"} = {e \in E : e.type = "refund"} \cup {n}
    BY <1>1, <1>3, <2>1
  <2>3. Charged(F) = Charged(E) \cup {r}
    BY <1>4, <2>2 DEF Charged
  <2> QED BY <2>3 DEF LedgerSound
<1>11. ASSUME give + SumAmounts(Reversals(E, vo)) <= Commission, Capped(E, vo) PROVE Capped(F, vo)
  <2>1. CASE give > 0
    <3>1. Reversals(F, vo) = Reversals(E, vo) \cup {back} /\ back \notin E
      BY <1>1, <1>3, <1>4, <1>6, <2>1 DEF Reversals
    <3>2. Reversals(E, vo) \cap {back} = {} /\ Reversals(E, vo) \in SUBSET E
      BY <3>1 DEF Reversals
    <3>3. Amounts({back}) /\ SumAmounts({back}) = give
      BY <1>4, AmountsOfFew
    <3>4. SumAmounts(Reversals(F, vo)) = SumAmounts(Reversals(E, vo)) + give
      BY <3>1, <3>2, <3>3, SoundAmounts, AmountsOfUnion
    <3>5. SumAmounts(Reversals(E, vo)) \in Int
      BY <3>2, SoundAmounts
    <3> QED BY <1>11, <3>4, <3>5 DEF Capped
  <2>2. CASE ~(give > 0)
    <3>1. Reversals(F, vo) = Reversals(E, vo)
      BY <1>1, <1>3, <1>4, <2>2 DEF Reversals
    <3> QED BY <1>11, <3>1 DEF Capped
  <2> QED BY <2>1, <2>2
<1>12. LedgerSound(F, vos, charged \cup {r})
  <2>1. \A v \in vos : SaleEntries(v) \subseteq F
    BY <1>1 DEF LedgerSound
  <2> QED BY <1>8, <1>9, <1>10, <2>1 DEF LedgerSound
<1> QED BY <1>1, <1>6, <1>7, <1>11, <1>12

LEMMA RefundPosted ==
  ASSUME NEW E, NEW vos, NEW charged, LedgerSound(E, vos, charged), NEW r \in RefundIds, RefundOrder[r] \in vos
  PROVE  /\ LedgerSound(postRefund(E, r), vos, charged \cup {r}) /\ E \subseteq postRefund(E, r)
         /\ \A e \in postRefund(E, r) \ E : e.type \in {"refund", "commission_reversal"} /\ e.vo = RefundOrder[r]
         /\ Capped(E, RefundOrder[r]) => Capped(postRefund(E, r), RefundOrder[r])
<1>1. CASE r \in charged
  <2>1. \E e \in E : e.type = "refund" /\ e.ref = r
    BY <1>1 DEF LedgerSound, Charged
  <2>2. postRefund(E, r) = E /\ charged \cup {r} = charged
    BY <1>1, <2>1 DEF postRefund
  <2> QED BY <2>2
<1>2. CASE r \notin charged
  <2>1. ~\E e \in E : e.type = "refund" /\ e.ref = r
    BY <1>2 DEF LedgerSound, Charged
  <2>2. postRefund(E, r) = AppendEntries(E, RefundEntries(E, r))
    BY <2>1 DEF postRefund
  <2>3. PICK part, give \in Int :
          /\ RefundEntries(E, r) = RefundRows(r, part, give)
          /\ Capped(E, RefundOrder[r]) => give + SumAmounts(Reversals(E, RefundOrder[r])) <= Commission
    BY RefundEntriesAre
  <2>4. /\ LedgerSound(E \cup RefundRows(r, part, give), vos, charged \cup {r})
        /\ AppendEntries(E, RefundRows(r, part, give)) = E \cup RefundRows(r, part, give)
        /\ \A e \in RefundRows(r, part, give) :
             e.type \in {"refund", "commission_reversal"} /\ e.vo = RefundOrder[r] /\ e \notin E
        /\ give + SumAmounts(Reversals(E, RefundOrder[r])) <= Commission /\ Capped(E, RefundOrder[r])
             => Capped(E \cup RefundRows(r, part, give), RefundOrder[r])
    BY <1>2, <2>3, RowsAppended
  <2>5. postRefund(E, r) = E \cup RefundRows(r, part, give)
    BY <2>2, <2>3, <2>4
  <2> QED BY <2>3, <2>4, <2>5
<1> QED BY <1>1, <1>2

(* The ledger with the refunds of every part of S posted.                  *)
Posts(h, E, S) == h = [s \in SUBSET S |-> IF s = {} THEN E ELSE postRefund(h[s \ {Pick(s)}], Pick(s))]

LEMMA PostsAt ==
  ASSUME NEW h, NEW E, NEW S, Posts(h, E, S)
  PROVE  /\ h[{}] = E
         /\ \A s \in SUBSET S : s # {} => h[s] = postRefund(h[s \ {Pick(s)}], Pick(s))
<1>1. \A s \in SUBSET S : h[s] = IF s = {} THEN E ELSE postRefund(h[s \ {Pick(s)}], Pick(s))
  BY DEF Posts
<1> QED BY <1>1

(* What refunds can add to a ledger.                                       *)
Rows == {Entry(t, v, r, a, b) :
           t \in {"refund", "commission_reversal"}, v \in VendorOrders, r \in RefundIds, a \in Int, b \in Int}

LEMMA PostsAreRows ==
  ASSUME NEW E, NEW vos, NEW charged, LedgerSound(E, vos, charged), NEW r \in RefundIds, RefundOrder[r] \in vos
  PROVE  postRefund(E, r) \subseteq E \cup Rows
<1>1. PICK part, give \in Int : RefundEntries(E, r) = RefundRows(r, part, give)
  BY RefundEntriesAre
<1>2. RefundOrder[r] \in VendorOrders /\ -RefundAmount[r] \in Int /\ 0 \in Int
  BY SettlementAssumption
<1>3. Entry("refund", RefundOrder[r], r, -RefundAmount[r], part) \in Rows
  BY <1>2 DEF Rows
<1>4. Entry("commission_reversal", RefundOrder[r], r, give, 0) \in Rows
  BY <1>2 DEF Rows
<1>5. RefundRows(r, part, give) \subseteq Rows
  BY <1>3, <1>4 DEF RefundRows
<1> QED BY <1>1, <1>5 DEF postRefund, AppendEntries

LEMMA PostsExist ==
  ASSUME NEW E, NEW vos, NEW charged, LedgerSound(E, vos, charged), NEW S \in SUBSET RefundIds,
         \A r \in S : RefundOrder[r] \in vos
  PROVE  \E h : Posts(h, E, S)
<1>1. PICK X, step : X = SUBSET (E \cup Rows) /\ step = [p \in RefundIds \X X |-> postRefund(p[2], p[1])]
  OBVIOUS
<1>2. IsFiniteSet(S)
  BY FS_Subset, SettlementAssumption
<1>3. PICK h : Folds(h, step, E, S)
  BY <1>2, FoldExists
<1>4. PICK Bad : Bad = {s \in SUBSET S : ~(h[s] \in X /\ \E c : LedgerSound(h[s], vos, c))}
  OBVIOUS
<1>5. ASSUME NEW s \in SUBSET S, s # {}, h[s \ {Pick(s)}] \in X
      PROVE  h[s] = postRefund(h[s \ {Pick(s)}], Pick(s))
  <2>1. PICK acc, r : acc = h[s \ {Pick(s)}] /\ r = Pick(s)
    OBVIOUS
  <2>2. r \in RefundIds /\ acc \in X
    BY <1>5, <2>1, PickIsIn
  <2>3. h[s] = step[<<r, acc>>]
    BY <1>3, <1>5, <2>1, FoldAt
  <2>4. step[<<r, acc>>] = postRefund(acc, r)
    BY <1>1, <2>2
  <2> QED BY <2>1, <2>3, <2>4
<1>6. Bad = {}
  <2>1. SUFFICES ASSUME Bad # {} PROVE FALSE
    OBVIOUS
  <2>2. PICK s \in Bad : \A t \in Bad : t \subseteq s => t = s
    <3>1. Bad \subseteq SUBSET S
      BY <1>4
    <3> QED BY <1>2, <2>1, <3>1, SmallestPart
  <2>3. s # {} /\ s \in SUBSET S
    <3>1. h[{}] = E /\ E \in X
      BY <1>1, <1>3, FoldAt
    <3> QED BY <1>4, <2>2, <3>1
  <2>4. PICK acc, r, t : r = Pick(s) /\ t = s \ {r} /\ acc = h[t]
    OBVIOUS
  <2>5. r \in S /\ t \subseteq s /\ t # s /\ t \in SUBSET S
    BY <2>3, <2>4, PickIsIn
  <2>6. acc \in X /\ \E c : LedgerSound(acc, vos, c)
    BY <1>4, <2>2, <2>4, <2>5
  <2>7. h[s] = postRefund(acc, r)
    BY <1>5, <2>3, <2>4, <2>6
  <2>8. r \in RefundIds /\ RefundOrder[r] \in vos
    BY <2>5
  <2>9. PICK c : LedgerSound(acc, vos, c)
    BY <2>6
  <2>10. LedgerSound(postRefund(acc, r), vos, c \cup {r}) /\ postRefund(acc, r) \subseteq acc \cup Rows
    BY <2>8, <2>9, RefundPosted, PostsAreRows
  <2>11. h[s] \in X
    BY <1>1, <2>6, <2>7, <2>10
  <2> QED BY <1>4, <2>2, <2>7, <2>10, <2>11
<1>7. ASSUME NEW s \in SUBSET S
      PROVE  h[s] = IF s = {} THEN E ELSE postRefund(h[s \ {Pick(s)}], Pick(s))
  <2>1. CASE s = {}
    BY <1>3, <2>1, FoldAt
  <2>2. CASE s # {}
    <3>1. s \ {Pick(s)} \in SUBSET S
      OBVIOUS
    <3>2. h[s \ {Pick(s)}] \in X
      BY <1>4, <1>6, <3>1
    <3> QED BY <1>5, <2>2, <3>2
  <2> QED BY <2>1, <2>2
<1>8. h = [s \in SUBSET S |-> h[s]]
  BY <1>3 DEF Folds
<1>9. Posts(h, E, S)
  BY <1>7, <1>8 DEF Posts
<1> QED BY <1>9

(* Posting earlier refunds, in whatever order, charges each of them.       *)
LEMMA EarlierPosted ==
  ASSUME NEW E, NEW vos, NEW charged, LedgerSound(E, vos, charged), NEW vo \in vos,
         NEW S \in SUBSET RefundIds, \A r \in S : RefundOrder[r] = vo
  PROVE  /\ LedgerSound(PostEarlier(E, S), vos, charged \cup S) /\ E \subseteq PostEarlier(E, S)
         /\ \A e \in PostEarlier(E, S) \ E : e.type \in {"refund", "commission_reversal"} /\ e.vo = vo
         /\ Capped(E, vo) => Capped(PostEarlier(E, S), vo)
<1>2. \A r \in S : RefundOrder[r] \in vos
  OBVIOUS
<1>3. IsFiniteSet(S)
  BY FS_Subset, SettlementAssumption
<1> DEFINE Posting(h) == h = [s \in SUBSET S |-> IF s = {} THEN E ELSE postRefund(h[s \ {Pick(s)}], Pick(s))]
<1>4. PostEarlier(E, S) = (CHOOSE h : Posting(h))[S]
  BY DEF PostEarlier, FoldSet, MapThenFoldSet, Pick
<1>5. \A h : Posting(h) <=> Posts(h, E, S)
  BY DEF Posts
<1> HIDE DEF Posting
<1>6. \E h : Posting(h)
  BY <1>2, <1>5, PostsExist
<1>7. PICK h : Posts(h, E, S) /\ PostEarlier(E, S) = h[S]
  BY <1>4, <1>5, <1>6
<1> DEFINE Fine(s) == /\ LedgerSound(h[s], vos, charged \cup s) /\ E \subseteq h[s]
                      /\ \A e \in h[s] \ E : e.type \in {"refund", "commission_reversal"} /\ e.vo = vo
                      /\ Capped(E, vo) => Capped(h[s], vo)
<1>8. PICK Bad : Bad = {s \in SUBSET S : ~Fine(s)}
  OBVIOUS
<1>9. Bad = {}
  <2>1. SUFFICES ASSUME Bad # {} PROVE FALSE
    OBVIOUS
  <2>2. PICK s \in Bad : \A t \in Bad : t \subseteq s => t = s
    <3>1. Bad \subseteq SUBSET S
      BY <1>8
    <3> QED BY <1>3, <2>1, <3>1, SmallestPart
  <2>3. s # {} /\ s \in SUBSET S
    <3>1. h[{}] = E /\ charged \cup {} = charged
      BY <1>7, PostsAt
    <3>2. Fine({})
      BY <3>1
    <3> QED BY <1>8, <2>2, <3>2
  <2>4. PICK acc, r, t : r = Pick(s) /\ t = s \ {r} /\ acc = h[t]
    OBVIOUS
  <2>5. r \in S /\ t \subseteq s /\ t # s /\ t \in SUBSET S /\ (charged \cup t) \cup {r} = charged \cup s
    BY <2>3, <2>4, PickIsIn
  <2>6. Fine(t)
    BY <1>8, <2>2, <2>5
  <2>7. h[s] = postRefund(acc, r)
    BY <1>7, <2>3, <2>4, PostsAt
  <2>8. /\ LedgerSound(acc, vos, charged \cup t) /\ E \subseteq acc
        /\ \A e \in acc \ E : e.type \in {"refund", "commission_reversal"} /\ e.vo = vo
        /\ Capped(E, vo) => Capped(acc, vo)
    BY <2>4, <2>6
  <2>9. r \in RefundIds /\ RefundOrder[r] \in vos /\ RefundOrder[r] = vo
    BY <1>2, <2>5
  <2> HIDE DEF Fine
  <2>10. /\ LedgerSound(postRefund(acc, r), vos, (charged \cup t) \cup {r}) /\ acc \subseteq postRefund(acc, r)
         /\ \A e \in postRefund(acc, r) \ acc : e.type \in {"refund", "commission_reversal"} /\ e.vo = vo
         /\ Capped(acc, vo) => Capped(postRefund(acc, r), vo)
    BY <2>8, <2>9, RefundPosted
  <2>11. Fine(s)
    BY <2>5, <2>7, <2>8, <2>10 DEF Fine
  <2> QED BY <1>8, <2>2, <2>11
<1>10. Fine(S)
  BY <1>8, <1>9
<1> QED BY <1>7, <1>10

-----------------------------------------------------------------------------
(***************************************************************************)
(* The ledger adds up: every entry says where it comes from, the items of  *)
(* payouts are disjoint parts of it in which a commission goes with its    *)
(* sale, and payouts and what they paid sum to zero.                       *)
(***************************************************************************)
PaidEntries == UNION {items[i].entries : i \in {j \in DOMAIN items : items[j].status = "succeeded"}}
PayoutEntries == {e \in entries : e.type = "payout"}

(* A vendor order's commission goes where its sale goes.                   *)
MovesWhole(E, C) ==
  \A e, s \in E : e.type = "commission" /\ s.type = "sale" /\ e.vo = s.vo => (e \in C <=> s \in C)

ItemClaim(E, item) ==
  /\ item.status \in Paying =>
       /\ item.entries \subseteq {e \in E : e.type # "payout"}
       /\ item.amount = SumAmounts(item.entries)
       /\ MovesWhole(E, item.entries)
  /\ item.state \in {"awaiting_approval", "awaiting_second_approval"} => item.status = "pending"

Disjoint ==
  \A i, j \in DOMAIN items :
    i # j /\ items[i].status \in Paying /\ items[j].status \in Paying => items[i].entries \cap items[j].entries = {}

ClaimsInv ==
  /\ \A i \in DOMAIN items : ItemClaim(entries, items[i])
  /\ Disjoint
  /\ \A e \in entries : e.type = "payout" => e.ref \in DOMAIN items /\ items[e.ref].status = "succeeded"
  /\ SumAmounts(PayoutEntries) + SumAmounts(PaidEntries) = 0

RefundedNow == {r \in RefundIds : refunds[r] = "succeeded"}

(* An open resolution will write nothing, or the rows of its refund.       *)
PostingIsSound(r) ==
  /\ refunds[r] = "open"
  /\ \/ posting[r] = {}
     \/ RefundOrder[r] \in settled /\ \E part, give \in Int : posting[r] = RefundRows(r, part, give)

(* A vendor order of which no two transactions were open at once: one that *)
(* is open read what is still so when it commits.                          *)
ReadIsFresh(r) ==
  RefundOrder[r] \in settled =>
    \E part, give \in Int : /\ posting[r] = RefundRows(r, part, give)
                            /\ give + SumAmounts(Reversals(entries, RefundOrder[r])) <= Commission

Calm(vo) ==
  /\ Capped(entries, vo)
  /\ vo \in settled => SucceededOf(vo) \subseteq Charged(entries)
  /\ vo \in DOMAIN ingesting => Postings(vo) = {} /\ ingesting[vo] = SucceededOf(vo)
  /\ \A r \in Postings(vo) : Postings(vo) = {r} /\ ReadIsFresh(r)

TransactionsInv ==
  /\ DOMAIN ingesting \subseteq VendorOrders /\ DOMAIN posting \subseteq RefundIds
  /\ Charged(entries) \subseteq RefundedNow
  /\ \A vo \in DOMAIN ingesting : ingesting[vo] \subseteq SucceededOf(vo)
  /\ \A r \in DOMAIN posting : PostingIsSound(r)
  /\ \A vo \in VendorOrders \ crowded : Calm(vo)

AddsUpInv ==
  /\ settled \subseteq VendorOrders /\ orderHolds \subseteq VendorOrders
  /\ refunds \in [RefundIds -> {"none", "open", "succeeded", "failed"}]
  /\ holds \in [HoldIds -> [status : {"none", "active", "released"}, claimed : BOOLEAN]]
  /\ LedgerSound(entries, settled, Charged(entries))
  /\ ClaimsInv /\ HeldMoneyStays /\ TransactionsInv

LEMMA InitAddsUp == LedgerInit => AddsUpInv
<1> SUFFICES ASSUME LedgerInit PROVE AddsUpInv
  OBVIOUS
<1>0. items = << >> /\ DOMAIN items = {} /\ entries = {} /\ settled = {} /\ orderHolds = {}
  BY DEF LedgerInit
<1>1. Charged(entries) = {}
  BY <1>0 DEF Charged
<1>2. ASSUME NEW vo \in VendorOrders PROVE Capped(entries, vo)
  <2>1. Reversals(entries, vo) = {}
    BY <1>0 DEF Reversals
  <2> QED BY <2>1, AmountsOfFew, CommissionType DEF Capped
<1>3. LedgerSound(entries, settled, Charged(entries))
  BY <1>0, <1>1, FS_EmptySet DEF LedgerSound
<1>4. PayoutEntries = {} /\ PaidEntries = {}
  BY <1>0 DEF PayoutEntries, PaidEntries
<1>5. ClaimsInv
  <2>1. SumAmounts(PayoutEntries) + SumAmounts(PaidEntries) = 0
    BY <1>4, AmountsOfFew
  <2> QED BY <1>0, <2>1 DEF ClaimsInv, Disjoint
<1>6. HeldMoneyStays
  BY DEF LedgerInit, HeldMoneyStays
<1>7. TransactionsInv
  <2>1. DOMAIN ingesting = {} /\ DOMAIN posting = {}
    BY DEF LedgerInit
  <2> QED BY <1>0, <1>1, <1>2, <2>1 DEF TransactionsInv, Calm, Postings
<1> QED BY <1>0, <1>3, <1>5, <1>6, <1>7 DEF AddsUpInv, LedgerInit

(* Steps of others leave open transactions as they are.                    *)
LEMMA TransactionsRest ==
  ASSUME AddsUpInv, UNCHANGED <<settled, openTx>>, entries \subseteq entries', RefundedNow' = RefundedNow,
         \A r \in DOMAIN posting : refunds'[r] = "open",
         \A e \in entries' \ entries : e.type \notin {"refund", "commission_reversal"}
  PROVE  TransactionsInv'
<1>1. UNCHANGED <<settled, ingesting, posting, crowded>>
  BY DEF openTx
<1>2. Charged(entries') = Charged(entries)
  <2>1. {x \in entries' : x.type = "refund"} = {x \in entries : x.type = "refund"}
    OBVIOUS
  <2> QED BY <2>1 DEF Charged
<1>3. \A vo : Reversals(entries', vo) = Reversals(entries, vo) /\ SucceededOf(vo)' = SucceededOf(vo)
               /\ Postings(vo)' = Postings(vo)
  BY <1>1 DEF Reversals, SucceededOf, RefundedNow, Postings
<1>4. \A vo \in VendorOrders : Calm(vo) => Calm(vo)'
  BY <1>1, <1>2, <1>3 DEF Calm, Capped, ReadIsFresh
<1>5. \A r \in DOMAIN posting : PostingIsSound(r) => PostingIsSound(r)'
  BY <1>1 DEF PostingIsSound
<1> QED BY <1>1, <1>2, <1>3, <1>4, <1>5 DEF AddsUpInv, TransactionsInv

(* Claimed entries are in the ledger.                                      *)
LEMMA ClaimedAreThere ==
  ASSUME ClaimsInv, NEW i \in DOMAIN items, items[i].status \in Paying
  PROVE  items[i].entries \subseteq entries /\ \A e \in items[i].entries : e.type # "payout"
BY DEF ClaimsInv, ItemClaim

(* The ledger grows by entries that no payout has.                         *)
LEMMA LedgerGrows ==
  ASSUME AddsUpInv, UNCHANGED <<items, holds, orderHolds>>, entries \subseteq entries', settled' \subseteq VendorOrders,
         refunds' \in [RefundIds -> {"none", "open", "succeeded", "failed"}],
         LedgerSound(entries', settled', Charged(entries')), TransactionsInv',
         \A e \in entries' \ entries : /\ e.type # "payout"
                                       /\ e.type \in {"sale", "commission"} => e.vo \notin settled
  PROVE  AddsUpInv'
<1>1. \A i \in DOMAIN items : items[i].status \in Paying => items[i].entries \subseteq entries
  BY ClaimedAreThere DEF AddsUpInv
<1>2. ASSUME NEW i \in DOMAIN items PROVE ItemClaim(entries', items[i])
  <2>1. ItemClaim(entries, items[i])
    BY DEF AddsUpInv, ClaimsInv
  <2>2. \A e \in entries : e.type \in {"sale", "commission"} => e.vo \in settled
    BY DEF AddsUpInv, LedgerSound, EntryIsSound
  <2>3. items[i].status \in Paying => MovesWhole(entries', items[i].entries)
    BY <1>1, <2>1, <2>2 DEF ItemClaim, MovesWhole
  <2> QED BY <2>1, <2>3 DEF ItemClaim
<1>3. PayoutEntries' = PayoutEntries /\ PaidEntries' = PaidEntries
  BY DEF PayoutEntries, PaidEntries
<1>4. ClaimsInv'
  <2>1. \A i \in DOMAIN items' : ItemClaim(entries', items'[i])
    BY <1>2
  <2>2. Disjoint'
    BY DEF AddsUpInv, ClaimsInv, Disjoint
  <2>3. \A e \in entries' : e.type = "payout" => e.ref \in DOMAIN items' /\ items'[e.ref].status = "succeeded"
    BY DEF AddsUpInv, ClaimsInv
  <2>4. SumAmounts(PayoutEntries') + SumAmounts(PaidEntries') = 0
    BY <1>3 DEF AddsUpInv, ClaimsInv
  <2> QED BY <2>1, <2>2, <2>3, <2>4 DEF ClaimsInv
<1>5. HeldMoneyStays'
  <2>1. \A vo : PayoutClaimed(vo)' => PayoutClaimed(vo)
    BY <1>1 DEF PayoutClaimed, Claimed
  <2> QED BY <2>1 DEF AddsUpInv, HeldMoneyStays
<1> QED BY <1>4, <1>5 DEF AddsUpInv

LEMMA AppendedEntries ==
  ASSUME NEW E, NEW new, \A n \in new, e \in E : ~(e.type = n.type /\ e.ref = n.ref)
  PROVE  AppendEntries(E, new) = E \cup new
BY DEF AppendEntries

(* The entries of a new sale.                                              *)
LEMMA NewSale ==
  ASSUME NEW E, NEW vos, NEW charged, LedgerSound(E, vos, charged), NEW vo \in VendorOrders, vo \notin vos
  PROVE  /\ LedgerSound(AppendEntries(E, SaleEntries(vo)), vos \cup {vo}, charged)
         /\ E \subseteq AppendEntries(E, SaleEntries(vo))
         /\ \A e \in AppendEntries(E, SaleEntries(vo)) \ E : e.type \in {"sale", "shipping", "commission"} /\ e.vo = vo
<1>1. PICK sale, shipping, commission :
        /\ sale = Entry("sale", vo, vo, Subtotal, 0)
        /\ shipping = Entry("shipping", vo, vo, Shipping, 0)
        /\ commission = Entry("commission", vo, vo, -Commission, 0)
  OBVIOUS
<1>2. PICK new, F : new = SaleEntries(vo) /\ F = E \cup new
  OBVIOUS
<1>3. /\ sale.type = "sale" /\ sale.vo = vo /\ sale.ref = vo /\ sale.amount = Subtotal /\ sale.base = 0
      /\ shipping.type = "shipping" /\ shipping.vo = vo /\ shipping.ref = vo /\ shipping.amount = Shipping
      /\ shipping.base = 0
      /\ commission.type = "commission" /\ commission.vo = vo /\ commission.ref = vo
      /\ commission.amount = -Commission /\ commission.base = 0
  BY <1>1 DEF Entry
<1>4. new = {n \in {sale, shipping, commission} : n.amount # 0}
  BY <1>1, <1>2 DEF SaleEntries
<1>5. \A n \in new : n.type \in {"sale", "shipping", "commission"} /\ n.vo = vo /\ n.ref = vo
  BY <1>3, <1>4
<1>6. \A e \in E : e.type \in {"sale", "shipping", "commission"} => e.ref # vo
  BY DEF LedgerSound, EntryIsSound
<1>7. AppendEntries(E, new) = F
  BY <1>2, <1>5, <1>6, AppendedEntries
<1>8. IsFiniteSet(F)
  <2>1. IsFiniteSet({sale}) /\ IsFiniteSet({shipping}) /\ IsFiniteSet({commission})
    BY FS_Singleton
  <2>2. IsFiniteSet({sale} \cup {shipping} \cup {commission})
    BY <2>1, FS_Union
  <2>3. new \subseteq {sale} \cup {shipping} \cup {commission}
    BY <1>4
  <2>4. IsFiniteSet(new)
    BY <2>2, <2>3, FS_Subset
  <2> QED BY <1>2, <2>4, FS_Union DEF LedgerSound
<1>9. ASSUME NEW e \in F PROVE EntryIsSound(F, vos \cup {vo}, e)
  <2>0. Subtotal \in Nat /\ Shipping \in Nat /\ Commission \in Nat /\ (Commission > 0 => Subtotal > 0)
    BY SettlementAssumption, CommissionType
  <2>1. CASE e \in E
    BY <1>2, <2>1 DEF LedgerSound, EntryIsSound
  <2>2. CASE e = sale /\ Subtotal # 0
    BY <1>3, <2>0, <2>2 DEF EntryIsSound
  <2>3. CASE e = shipping /\ Shipping # 0
    BY <1>3, <2>0, <2>3 DEF EntryIsSound
  <2>4. CASE e = commission /\ -Commission # 0
    <3>1. Commission > 0 /\ Subtotal > 0 /\ sale \in F
      BY <1>2, <1>3, <1>4, <2>0, <2>4
    <3> QED BY <1>3, <2>0, <2>4, <3>1 DEF EntryIsSound
  <2> QED BY <1>2, <1>3, <1>4, <2>1, <2>2, <2>3, <2>4
<1>10. Charged(F) = charged
  <2>1. {e \in F : e.type = "refund"} = {e \in E : e.type = "refund"}
    BY <1>2, <1>5
  <2> QED BY <2>1 DEF Charged, LedgerSound
<1>11. \A v \in vos \cup {vo} : SaleEntries(v) \subseteq F
  BY <1>2 DEF LedgerSound
<1>12. LedgerSound(F, vos \cup {vo}, charged)
  BY <1>8, <1>9, <1>10, <1>11 DEF LedgerSound
<1> QED BY <1>2, <1>5, <1>7, <1>12

(* A vendor order reported again enters no second sale.                    *)
LEMMA SaleIngested ==
  ASSUME NEW E, NEW vos, NEW charged, LedgerSound(E, vos, charged), NEW vo \in VendorOrders
  PROVE  /\ LedgerSound(AppendEntries(E, SaleEntries(vo)), vos \cup {vo}, charged)
         /\ E \subseteq AppendEntries(E, SaleEntries(vo))
         /\ \A e \in AppendEntries(E, SaleEntries(vo)) \ E :
              e.type \in {"sale", "shipping", "commission"} /\ e.vo = vo /\ vo \notin vos
<1>1. CASE vo \in vos
  <2>1. SaleEntries(vo) \subseteq E /\ vos \cup {vo} = vos
    BY <1>1 DEF LedgerSound
  <2>2. AppendEntries(E, SaleEntries(vo)) = E
    BY <2>1 DEF AppendEntries
  <2> QED BY <2>1, <2>2
<1>2. CASE vo \notin vos
  BY <1>2, NewSale
<1> QED BY <1>1, <1>2

(* Entries of other kinds, and of other vendor orders, leave the cap alone. *)
LEMMA CapStays ==
  ASSUME NEW E, NEW F, NEW vo, E \subseteq F,
         \A e \in F \ E : e.type = "commission_reversal" => e.vo # vo
  PROVE  Reversals(F, vo) = Reversals(E, vo)
BY DEF Reversals

(* An open ingest begins, and one that rolls back leaves nothing.          *)
LEMMA IngestReads ==
  ASSUME AddsUpInv, NEW vo \in VendorOrders, SucceededRefunds(vo) \/ IngestRollsBack(vo)
  PROVE  TransactionsInv'
<1>1. UNCHANGED <<settled, entries, refunds, posting>>
  BY DEF SucceededRefunds, IngestRollsBack
<1>2. /\ DOMAIN ingesting' \subseteq VendorOrders
      /\ \A v \in DOMAIN ingesting' :
           IF v = vo THEN ingesting'[v] = SucceededOf(v) ELSE v \in DOMAIN ingesting /\ ingesting'[v] = ingesting[v]
  BY DEF SucceededRefunds, IngestRollsBack, Begun, Ended, SucceededOf, AddsUpInv, TransactionsInv
<1>3. crowded \subseteq crowded' /\ (vo \in DOMAIN ingesting' /\ vo \notin crowded' => Postings(vo) = {})
  BY DEF SucceededRefunds, IngestRollsBack, Ended
<1>4. /\ \A v : SucceededOf(v)' = SucceededOf(v) /\ Postings(v)' = Postings(v)
      /\ RefundedNow' = RefundedNow /\ Charged(entries)' = Charged(entries)
  BY <1>1 DEF SucceededOf, Postings, RefundedNow, Charged
<1>5. \A r \in DOMAIN posting : PostingIsSound(r)'
  BY <1>1 DEF PostingIsSound, AddsUpInv, TransactionsInv
<1>6. ASSUME NEW v \in VendorOrders \ crowded' PROVE Calm(v)'
  <2>1. Calm(v)
    BY <1>3, <1>6 DEF AddsUpInv, TransactionsInv
  <2>2. \A r : ReadIsFresh(r)' <=> ReadIsFresh(r)
    BY <1>1 DEF ReadIsFresh
  <2> QED BY <1>1, <1>2, <1>3, <1>4, <1>6, <2>1, <2>2 DEF Calm, Capped
<1> QED BY <1>1, <1>2, <1>4, <1>5, <1>6 DEF AddsUpInv, TransactionsInv

LEMMA IngestAddsUp ==
  ASSUME AddsUpInv, NEW vo \in VendorOrders, IngestVendorOrder(vo)
  PROVE  AddsUpInv'
<1>1. PICK E, S : E = AppendEntries(entries, SaleEntries(vo)) /\ S = ingesting[vo]
  OBVIOUS
<1>2. /\ settled' = settled \cup {vo} /\ entries' = PostEarlier(E, S) /\ vo \in DOMAIN ingesting
      /\ UNCHANGED <<refunds, posting, crowded>> /\ ingesting' = Ended(ingesting, vo)
  BY <1>1 DEF IngestVendorOrder
<1>3. S \in SUBSET RefundIds /\ S \subseteq SucceededOf(vo) /\ \A r \in S : RefundOrder[r] = vo
  BY <1>1, <1>2 DEF AddsUpInv, TransactionsInv, SucceededOf
<1>4. /\ LedgerSound(E, settled \cup {vo}, Charged(entries)) /\ entries \subseteq E
      /\ \A e \in E \ entries : e.type \in {"sale", "shipping", "commission"} /\ e.vo = vo /\ vo \notin settled
  BY <1>1, SaleIngested DEF AddsUpInv
<1>5. /\ LedgerSound(entries', settled', Charged(entries) \cup S) /\ E \subseteq entries'
      /\ \A e \in entries' \ E : e.type \in {"refund", "commission_reversal"} /\ e.vo = vo
      /\ Capped(E, vo) => Capped(entries', vo)
  <2>1. vo \in settled \cup {vo}
    OBVIOUS
  <2> QED BY <1>2, <1>3, <1>4, <2>1, EarlierPosted
<1>6. Charged(entries') = Charged(entries) \cup S /\ LedgerSound(entries', settled', Charged(entries'))
  BY <1>5 DEF LedgerSound
<1>7. \A e \in entries' \ entries : /\ e.type # "payout"
                                    /\ e.type \in {"sale", "commission"} => e.vo \notin settled
                                    /\ e.vo = vo
  BY <1>4, <1>5
<1>8. TransactionsInv'
  <2>1. \A v : SucceededOf(v)' = SucceededOf(v) /\ Postings(v)' = Postings(v) /\ RefundedNow' = RefundedNow
    BY <1>2 DEF SucceededOf, Postings, RefundedNow
  <2>2. /\ DOMAIN ingesting' \subseteq DOMAIN ingesting \ {vo}
        /\ \A v \in DOMAIN ingesting' : ingesting'[v] = ingesting[v]
    BY <1>2 DEF Ended
  <2>3. \A r \in DOMAIN posting : PostingIsSound(r)'
    BY <1>2 DEF PostingIsSound, AddsUpInv, TransactionsInv
  <2>4. ASSUME NEW v \in VendorOrders \ crowded, v # vo PROVE Calm(v)'
    <3>1. Calm(v)
      BY <2>4 DEF AddsUpInv, TransactionsInv
    <3>2. Reversals(entries', v) = Reversals(entries, v)
      BY <1>4, <1>5, <1>7, <2>4, CapStays
    <3>3. \A r \in Postings(v) : ReadIsFresh(r) => ReadIsFresh(r)'
      BY <1>2, <2>4, <3>2 DEF ReadIsFresh, Postings
    <3> QED BY <1>2, <1>6, <2>1, <2>2, <2>4, <3>1, <3>2, <3>3 DEF Calm, Capped
  <2>5. ASSUME vo \notin crowded PROVE Calm(vo)'
    <3>1. Calm(vo) /\ Postings(vo) = {} /\ S = SucceededOf(vo)
      BY <1>1, <1>2, <2>5 DEF AddsUpInv, TransactionsInv, Calm
    <3>2. Reversals(E, vo) = Reversals(entries, vo)
      BY <1>4, CapStays
    <3>3. Capped(entries', vo)
      BY <1>5, <3>1, <3>2 DEF Calm, Capped
    <3> QED BY <1>2, <1>6, <2>1, <2>2, <3>1, <3>3 DEF Calm, Capped
  <2>6. Charged(entries') \subseteq RefundedNow
    BY <1>3, <1>6 DEF AddsUpInv, TransactionsInv, SucceededOf, RefundedNow
  <2> QED BY <1>2, <2>1, <2>2, <2>3, <2>4, <2>5, <2>6 DEF AddsUpInv, TransactionsInv
<1> QED BY <1>2, <1>4, <1>5, <1>6, <1>7, <1>8, LedgerGrows DEF AddsUpInv, IngestVendorOrder

(* A resolution reads the ledger, or rolls back.                           *)
LEMMA PostReads ==
  ASSUME AddsUpInv, NEW r \in RefundIds, FindOrder(r) \/ PostRollsBack(r)
  PROVE  TransactionsInv'
<1>1. UNCHANGED <<settled, entries, refunds, ingesting>> /\ crowded \subseteq crowded'
  BY DEF FindOrder, PostRollsBack
<1>2. /\ \A v : SucceededOf(v)' = SucceededOf(v)
      /\ RefundedNow' = RefundedNow /\ Charged(entries)' = Charged(entries)
  BY <1>1 DEF SucceededOf, RefundedNow, Charged
<1>3. \A q \in DOMAIN posting' \ {r} : q \in DOMAIN posting /\ posting'[q] = posting[q]
  BY DEF FindOrder, PostRollsBack, Begun, Ended
<1>4. ASSUME r \in DOMAIN posting'
      PROVE  /\ FindOrder(r) /\ r \notin DOMAIN posting /\ refunds[r] = "open"
             /\ posting'[r] = IF RefundOrder[r] \in settled THEN postRefund(entries, r) \ entries ELSE {}
             /\ RefundOrder[r] \notin crowded' =>
                  Postings(RefundOrder[r]) = {} /\ RefundOrder[r] \notin DOMAIN ingesting
  BY <1>4 DEF FindOrder, PostRollsBack, Begun, Ended
<1>5. ASSUME r \in DOMAIN posting', RefundOrder[r] \in settled
      PROVE  \E part, give \in Int :
               /\ posting'[r] = RefundRows(r, part, give)
               /\ Capped(entries, RefundOrder[r]) => give + SumAmounts(Reversals(entries, RefundOrder[r])) <= Commission
  <2>1. LedgerSound(entries, settled, Charged(entries)) /\ r \notin Charged(entries)
    BY <1>4, <1>5 DEF AddsUpInv, TransactionsInv, RefundedNow
  <2>2. PICK part, give \in Int :
          /\ RefundEntries(entries, r) = RefundRows(r, part, give)
          /\ Capped(entries, RefundOrder[r]) => give + SumAmounts(Reversals(entries, RefundOrder[r])) <= Commission
    BY <1>5, <2>1, RefundEntriesAre
  <2>3. /\ AppendEntries(entries, RefundRows(r, part, give)) = entries \cup RefundRows(r, part, give)
        /\ \A e \in RefundRows(r, part, give) :
             e.type \in {"refund", "commission_reversal"} /\ e.vo = RefundOrder[r] /\ e \notin entries
    <3>1. /\ LedgerSound(entries \cup RefundRows(r, part, give), settled, Charged(entries) \cup {r})
          /\ AppendEntries(entries, RefundRows(r, part, give)) = entries \cup RefundRows(r, part, give)
          /\ \A e \in RefundRows(r, part, give) :
               e.type \in {"refund", "commission_reversal"} /\ e.vo = RefundOrder[r] /\ e \notin entries
          /\ give + SumAmounts(Reversals(entries, RefundOrder[r])) <= Commission /\ Capped(entries, RefundOrder[r])
               => Capped(entries \cup RefundRows(r, part, give), RefundOrder[r])
      BY <1>5, <2>1, RowsAppended
    <3> QED BY <3>1
  <2>4. postRefund(entries, r) = entries \cup RefundRows(r, part, give)
    BY <2>1, <2>2, <2>3 DEF postRefund, Charged
  <2>5. posting'[r] = RefundRows(r, part, give)
    BY <1>4, <1>5, <2>3, <2>4
  <2> QED BY <2>2, <2>5
<1>6. ASSUME NEW q \in DOMAIN posting' PROVE PostingIsSound(q)'
  <2>1. CASE q = r
    BY <1>1, <1>4, <1>5, <1>6, <2>1 DEF PostingIsSound
  <2>2. CASE q # r
    BY <1>1, <1>3, <1>6, <2>2 DEF PostingIsSound, AddsUpInv, TransactionsInv
  <2> QED BY <2>1, <2>2
<1>7. ASSUME NEW v \in VendorOrders \ crowded' PROVE Calm(v)'
  <2>1. Calm(v)
    BY <1>1, <1>7 DEF AddsUpInv, TransactionsInv
  <2>2. \A q \in Postings(v)' : q # r => q \in Postings(v)
    BY <1>3 DEF Postings
  <2>3. ASSUME r \in Postings(v)' PROVE Postings(v)' = {r} /\ ReadIsFresh(r)' /\ v \notin DOMAIN ingesting
    <3>1. r \in DOMAIN posting' /\ RefundOrder[r] = v
      BY <2>3 DEF Postings
    <3>2. Postings(v) = {} /\ v \notin DOMAIN ingesting
      BY <1>4, <1>7, <3>1
    <3>3. ReadIsFresh(r)'
      BY <1>1, <1>5, <2>1, <3>1 DEF ReadIsFresh, Calm
    <3> QED BY <2>2, <2>3, <3>2, <3>3
  <2>4. ASSUME r \notin Postings(v)', NEW q \in Postings(v)' PROVE Postings(v)' = {q} /\ ReadIsFresh(q)'
    <3>1. q # r /\ q \in Postings(v) /\ Postings(v) = {q} /\ ReadIsFresh(q)
      BY <2>1, <2>2, <2>4 DEF Calm
    <3>2. ReadIsFresh(q)'
      BY <1>1, <1>3, <2>4, <3>1 DEF ReadIsFresh, Postings
    <3> QED BY <2>2, <2>4, <3>1, <3>2
  <2>5. v \in DOMAIN ingesting => Postings(v)' = {}
    BY <2>1, <2>2, <2>3 DEF Calm
  <2> QED BY <1>1, <1>2, <2>1, <2>3, <2>4, <2>5 DEF Calm, Capped
<1>8. DOMAIN posting' \subseteq RefundIds
  BY <1>3 DEF AddsUpInv, TransactionsInv
<1> QED BY <1>1, <1>2, <1>6, <1>7, <1>8 DEF AddsUpInv, TransactionsInv

LEMMA PostRefundAddsUp ==
  ASSUME AddsUpInv, NEW r \in RefundIds, PostRefund(r)
  PROVE  AddsUpInv'
<1>1. /\ r \in DOMAIN posting /\ refunds[r] = "open" /\ refunds' = [refunds EXCEPT ![r] = "succeeded"]
      /\ entries' = AppendEntries(entries, posting[r]) /\ posting' = Ended(posting, r)
      /\ UNCHANGED <<settled, ingesting, crowded, items, holds, orderHolds>>
      /\ refunds' \in [RefundIds -> {"none", "open", "succeeded", "failed"}]
      /\ PostingIsSound(r)
  BY DEF PostRefund, AddsUpInv, TransactionsInv, PostingIsSound
<1>2. PICK vo : vo = RefundOrder[r]
  OBVIOUS
<1>3. /\ RefundedNow' = RefundedNow \cup {r} /\ SucceededOf(vo)' = SucceededOf(vo) \cup {r} /\ r \notin RefundedNow
      /\ \A v : v # vo => SucceededOf(v)' = SucceededOf(v)
  BY <1>1, <1>2 DEF RefundedNow, SucceededOf, AddsUpInv
<1>4. /\ DOMAIN posting' = DOMAIN posting \ {r} /\ \A q \in DOMAIN posting' : posting'[q] = posting[q]
      /\ \A v : Postings(v)' = Postings(v) \ {r}
  BY <1>1 DEF Ended, Postings
<1>5. \A q \in DOMAIN posting' : PostingIsSound(q)'
  BY <1>1, <1>4 DEF PostingIsSound, AddsUpInv, TransactionsInv
<1>6. \A v \in DOMAIN ingesting' : ingesting'[v] \subseteq SucceededOf(v)'
  BY <1>1, <1>3 DEF AddsUpInv, TransactionsInv
<1>7. PICK charged : charged = IF posting[r] = {} THEN Charged(entries) ELSE Charged(entries) \cup {r}
  OBVIOUS
<1>8. /\ LedgerSound(entries', settled, charged) /\ entries \subseteq entries'
      /\ \A e \in entries' \ entries : e.type \in {"refund", "commission_reversal"} /\ e.vo = vo
      /\ Calm(vo) /\ vo \notin crowded => Capped(entries', vo) /\ (vo \in settled => r \in charged)
  <2>1. CASE posting[r] = {}
    <3>1. entries' = entries
      BY <1>1, <2>1 DEF AppendEntries
    <3>2. Calm(vo) => vo \notin settled /\ Capped(entries, vo)
      <4>1. r \in Postings(vo)
        BY <1>1, <1>2 DEF Postings
      <4>2. \A part, give : RefundRows(r, part, give) # {}
        BY DEF RefundRows
      <4> QED BY <1>2, <2>1, <4>1, <4>2 DEF Calm, ReadIsFresh
    <3> QED BY <1>7, <2>1, <3>1, <3>2 DEF AddsUpInv
  <2>2. CASE posting[r] # {}
    <3>1. vo \in settled /\ \E part, give \in Int : posting[r] = RefundRows(r, part, give)
      BY <1>1, <1>2, <2>2 DEF PostingIsSound
    <3>2. PICK part, give \in Int :
            /\ posting[r] = RefundRows(r, part, give)
            /\ Calm(vo) => give + SumAmounts(Reversals(entries, vo)) <= Commission /\ Capped(entries, vo)
      <4>1. r \in Postings(vo)
        BY <1>1, <1>2 DEF Postings
      <4>2. CASE Calm(vo)
        BY <1>2, <3>1, <4>1, <4>2 DEF Calm, ReadIsFresh
      <4> QED BY <3>1, <4>2
    <3>3. r \notin Charged(entries)
      BY <1>3 DEF AddsUpInv, TransactionsInv
    <3>4. /\ LedgerSound(entries \cup RefundRows(r, part, give), settled, Charged(entries) \cup {r})
          /\ AppendEntries(entries, RefundRows(r, part, give)) = entries \cup RefundRows(r, part, give)
          /\ \A e \in RefundRows(r, part, give) :
               e.type \in {"refund", "commission_reversal"} /\ e.vo = RefundOrder[r] /\ e \notin entries
          /\ give + SumAmounts(Reversals(entries, RefundOrder[r])) <= Commission /\ Capped(entries, RefundOrder[r])
               => Capped(entries \cup RefundRows(r, part, give), RefundOrder[r])
      <4>1. LedgerSound(entries, settled, Charged(entries)) /\ RefundOrder[r] \in settled
        BY <1>2, <3>1 DEF AddsUpInv
      <4> QED BY <3>3, <4>1, RowsAppended
    <3>5. entries' = entries \cup RefundRows(r, part, give)
      BY <1>1, <3>2, <3>4
    <3> QED BY <1>2, <1>7, <2>2, <3>2, <3>4, <3>5
  <2> QED BY <2>1, <2>2
<1>9. Charged(entries') = charged /\ LedgerSound(entries', settled', Charged(entries'))
  BY <1>1, <1>8 DEF LedgerSound
<1>10. ASSUME NEW v \in VendorOrders \ crowded, v # vo PROVE Calm(v)'
  <2>1. Calm(v) /\ r \notin Postings(v)
    BY <1>2, <1>10 DEF AddsUpInv, TransactionsInv, Postings
  <2>2. Reversals(entries', v) = Reversals(entries, v)
    BY <1>8, <1>10, CapStays
  <2>3. \A q \in Postings(v) : ReadIsFresh(q) => ReadIsFresh(q)'
    BY <1>1, <1>4, <2>1, <2>2 DEF ReadIsFresh, Postings
  <2>4. Charged(entries) \subseteq Charged(entries')
    BY <1>7, <1>9
  <2> QED BY <1>1, <1>3, <1>4, <1>10, <2>1, <2>2, <2>3, <2>4 DEF Calm, Capped
<1>11. ASSUME vo \notin crowded, vo \in VendorOrders PROVE Calm(vo)'
  <2>1. Calm(vo) /\ r \in Postings(vo)
    BY <1>1, <1>2, <1>11 DEF AddsUpInv, TransactionsInv, Postings
  <2>2. Postings(vo)' = {} /\ vo \notin DOMAIN ingesting
    BY <1>4, <2>1 DEF Calm
  <2>3. Capped(entries', vo) /\ (vo \in settled => SucceededOf(vo)' \subseteq Charged(entries'))
    BY <1>3, <1>7, <1>8, <1>9, <1>11, <2>1 DEF Calm
  <2> QED BY <1>1, <2>2, <2>3 DEF Calm, Capped
<1>12. TransactionsInv'
  <2>1. Charged(entries') \subseteq RefundedNow'
    BY <1>3, <1>7, <1>9 DEF AddsUpInv, TransactionsInv
  <2> QED BY <1>1, <1>4, <1>5, <1>6, <1>10, <1>11, <2>1 DEF AddsUpInv, TransactionsInv
<1> QED BY <1>1, <1>8, <1>9, <1>12, LedgerGrows DEF AddsUpInv

(* An entry of no vendor order is added.                                   *)
LEMMA OtherEntry ==
  ASSUME NEW E, NEW vos, NEW charged, LedgerSound(E, vos, charged), NEW n, n.type \in {"adjustment", "payout"},
         n.vo = "none", n.amount \in Int, n.base \in Int
  PROVE  LedgerSound(E \cup {n}, vos, charged)
<1>1. PICK F : F = E \cup {n}
  OBVIOUS
<1>2. IsFiniteSet(F)
  BY <1>1, FS_AddElement DEF LedgerSound
<1>3. \A e \in F : EntryIsSound(F, vos, e)
  <2>1. ASSUME NEW e \in E PROVE EntryIsSound(F, vos, e)
    BY <1>1 DEF LedgerSound, EntryIsSound
  <2>2. EntryIsSound(F, vos, n)
    BY DEF EntryIsSound
  <2> QED BY <1>1, <2>1, <2>2
<1>4. Charged(F) = charged
  <2>1. {e \in F : e.type = "refund"} = {e \in E : e.type = "refund"}
    BY <1>1
  <2> QED BY <2>1 DEF Charged, LedgerSound
<1>5. \A v \in vos : SaleEntries(v) \subseteq F
  BY <1>1 DEF LedgerSound
<1> QED BY <1>1, <1>2, <1>3, <1>4, <1>5 DEF LedgerSound

LEMMA AdjustAddsUp ==
  ASSUME AddsUpInv, NEW amount \in Adjustments, adjust(amount)
  PROVE  AddsUpInv'
<1>1. PICK n : n = Entry("adjustment", "none", amount, amount, 0)
  OBVIOUS
<1>2. n.type = "adjustment" /\ n.vo = "none" /\ n.ref = amount /\ n.amount = amount /\ n.base = 0 /\ amount \in Int
  BY <1>1, SettlementAssumption DEF Entry
<1>3. entries' = entries \cup {n}
  <2>1. \A m \in {n}, e \in entries : ~(e.type = m.type /\ e.ref = m.ref)
    BY <1>2 DEF adjust
  <2>2. AppendEntries(entries, {n}) = entries \cup {n}
    BY <2>1, AppendedEntries
  <2> QED BY <1>1, <2>2 DEF adjust
<1>4. LedgerSound(entries', settled', Charged(entries'))
  <2>1. LedgerSound(entries, settled, Charged(entries)) /\ n.base \in Int /\ n.amount \in Int
    BY <1>2 DEF AddsUpInv
  <2>2. LedgerSound(entries \cup {n}, settled, Charged(entries))
    BY <1>2, <2>1, OtherEntry
  <2>3. LedgerSound(entries', settled', Charged(entries))
    BY <1>3, <2>2 DEF adjust
  <2> QED BY <2>3 DEF LedgerSound
<1>5. \A e \in entries' \ entries : e.type = "adjustment"
  BY <1>2, <1>3
<1>6. TransactionsInv'
  <2>1. UNCHANGED <<settled, openTx, refunds>> /\ RefundedNow' = RefundedNow
    BY DEF adjust, RefundedNow
  <2> QED BY <1>3, <1>5, <2>1, TransactionsRest DEF AddsUpInv, TransactionsInv, PostingIsSound
<1> QED BY <1>3, <1>4, <1>5, <1>6, LedgerGrows DEF AddsUpInv, adjust

(* An item changes, without adding to what payouts have or to what is paid. *)
LEMMA ItemReplaced ==
  ASSUME AddsUpInv, ItemsInv, NEW i \in DOMAIN items, NEW x, items' = [items EXCEPT ![i] = x],
         UNCHANGED <<settled, entries, refunds, openTx, holds, orderHolds>>,
         ItemClaim(entries, x), x.status = "succeeded" <=> items[i].status = "succeeded",
         x.status \in Paying => items[i].status \in Paying /\ x.entries = items[i].entries
  PROVE  AddsUpInv'
<1>1. DOMAIN items' = DOMAIN items /\ items'[i] = x /\ \A j \in DOMAIN items \ {i} : items'[j] = items[j]
  BY Replaced DEF ItemsInv
<1>2. \A j \in DOMAIN items : items'[j].status \in Paying =>
        items[j].status \in Paying /\ items'[j].entries = items[j].entries
  BY <1>1
<1>3. \A j \in DOMAIN items : items'[j].status = "succeeded" <=> items[j].status = "succeeded"
  BY <1>1
<1>4. \A j \in DOMAIN items' : ItemClaim(entries', items'[j])
  BY <1>1 DEF AddsUpInv, ClaimsInv
<1>5. Disjoint'
  BY <1>1, <1>2 DEF AddsUpInv, ClaimsInv, Disjoint
<1>6. PayoutEntries' = PayoutEntries
  BY DEF PayoutEntries
<1>7. PaidEntries' = PaidEntries
  <2>1. {j \in DOMAIN items' : items'[j].status = "succeeded"} = {j \in DOMAIN items : items[j].status = "succeeded"}
    BY <1>1, <1>3
  <2>2. \A j \in {k \in DOMAIN items : items[k].status = "succeeded"} : items'[j].entries = items[j].entries
    BY <1>2, <1>3 DEF Paying
  <2> QED BY <2>1, <2>2 DEF PaidEntries
<1>8. ClaimsInv'
  <2>1. \A e \in entries' : e.type = "payout" => e.ref \in DOMAIN items' /\ items'[e.ref].status = "succeeded"
    BY <1>1, <1>3 DEF AddsUpInv, ClaimsInv
  <2>2. SumAmounts(PayoutEntries') + SumAmounts(PaidEntries') = 0
    BY <1>6, <1>7 DEF AddsUpInv, ClaimsInv
  <2> QED BY <1>4, <1>5, <2>1, <2>2 DEF ClaimsInv
<1>9. HeldMoneyStays'
  <2>1. \A vo : PayoutClaimed(vo)' => PayoutClaimed(vo)
    BY <1>1, <1>2 DEF PayoutClaimed, Claimed
  <2> QED BY <2>1 DEF AddsUpInv, HeldMoneyStays
<1>10. TransactionsInv'
  <2>1. RefundedNow' = RefundedNow
    BY DEF RefundedNow
  <2> QED BY <2>1, TransactionsRest DEF AddsUpInv, TransactionsInv, PostingIsSound
<1> QED BY <1>8, <1>9, <1>10 DEF AddsUpInv

LEMMA ApproveAddsUp ==
  ASSUME AddsUpInv, ItemsInv, NEW i \in Items, NEW actor \in Approvers, ApprovePayoutBatch(i, actor)
  PROVE  AddsUpInv'
<1>1. i \in DOMAIN items /\ ItemClaim(entries, items[i]) /\ OpenApproval(i) /\ ItemIsApproved(items[i])
  BY DEF ApprovePayoutBatch, AddsUpInv, ClaimsInv, ItemsInv
<1>2. items[i].status = "pending"
  BY <1>1 DEF ItemClaim, OpenApproval
<1>3. PICK x : x = IF items[i].state = "awaiting_second_approval"
                   THEN [items[i] EXCEPT !.second = actor, !.state = "approved"]
                   ELSE [items[i] EXCEPT !.first = actor,
                           !.state = IF items[i].required >= 2 THEN "awaiting_second_approval" ELSE "approved"]
  OBVIOUS
<1>4. items' = [items EXCEPT ![i] = x] /\ UNCHANGED <<settled, entries, refunds, openTx, holds, orderHolds>>
  BY <1>3 DEF ApprovePayoutBatch, SaveApproval
<1>5. x.status = items[i].status /\ x.amount = items[i].amount /\ x.entries = items[i].entries
  BY <1>1, <1>3 DEF ItemIsApproved
<1>6. ItemClaim(entries, x)
  BY <1>1, <1>2, <1>5 DEF ItemClaim
<1> QED BY <1>1, <1>2, <1>4, <1>5, <1>6, ItemReplaced

(* A pending item ends without a transfer.                                 *)
LEMMA ItemEnds ==
  ASSUME AddsUpInv, ItemsInv, NEW i \in DOMAIN items, items[i].status = "pending", NEW status \in {"cancelled", "failed"},
         items' = [items EXCEPT ![i] = EndedItem(i, status)],
         UNCHANGED <<settled, entries, refunds, openTx, holds, orderHolds>>
  PROVE  AddsUpInv'
<1>1. PICK x : x = EndedItem(i, status)
  OBVIOUS
<1>2. ItemIsApproved(items[i])
  BY DEF ItemsInv
<1>3. x.status = status /\ x.state = "ended"
  BY <1>1, <1>2 DEF EndedItem, ItemIsApproved
<1>4. ItemClaim(entries, x)
  BY <1>3 DEF ItemClaim, Paying
<1> QED BY <1>1, <1>3, <1>4, ItemReplaced DEF Paying

LEMMA CloseAddsUp ==
  ASSUME AddsUpInv, ItemsInv, NEW i \in Items, ClosePayoutBatch(i) \/ CancelPayoutItem(i)
  PROVE  AddsUpInv'
<1>1. i \in DOMAIN items /\ items[i].status = "pending"
  BY DEF ClosePayoutBatch, CancelPayoutItem, OpenApproval, AddsUpInv, ClaimsInv, ItemClaim
<1> QED BY <1>1, ItemEnds DEF ClosePayoutBatch, CancelPayoutItem, SaveApproval

(* A payout that succeeds is paid, and its payout entry says so.           *)
LEMMA PayoutAddsUp ==
  ASSUME AddsUpInv, ItemsInv, NEW i \in DOMAIN items, items[i].status = "pending",
         items' = [items EXCEPT ![i] = [items[i] EXCEPT !.status = "succeeded"]],
         entries' = AppendEntries(entries, {Entry("payout", "none", i, -items[i].amount, 0)}),
         items[i].state = "approved", UNCHANGED <<settled, refunds, openTx, holds, orderHolds>>
  PROVE  AddsUpInv'
<1>1. PICK n : n = Entry("payout", "none", i, -items[i].amount, 0)
  OBVIOUS
<1>2. PICK x : x = [items[i] EXCEPT !.status = "succeeded"]
  OBVIOUS
<1>3. ItemClaim(entries, items[i]) /\ ItemIsApproved(items[i])
  BY DEF AddsUpInv, ClaimsInv, ItemsInv
<1>4. /\ items[i].entries \in SUBSET entries /\ \A e \in items[i].entries : e.type # "payout"
      /\ items[i].amount = SumAmounts(items[i].entries) /\ items[i].amount \in Int
  <2>1. /\ items[i].entries \in SUBSET entries /\ \A e \in items[i].entries : e.type # "payout"
        /\ items[i].amount = SumAmounts(items[i].entries)
    BY <1>3 DEF ItemClaim, Paying
  <2> QED BY <2>1, SoundAmounts DEF AddsUpInv
<1>5. n.type = "payout" /\ n.vo = "none" /\ n.ref = i /\ n.amount = -items[i].amount /\ n.amount \in Int /\ n.base = 0
  BY <1>1, <1>4 DEF Entry
<1>6. \A e \in entries : e.type = "payout" => e.ref # i
  BY DEF AddsUpInv, ClaimsInv
<1>7. entries' = entries \cup {n} /\ n \notin entries
  <2>1. \A m \in {n}, e \in entries : ~(e.type = m.type /\ e.ref = m.ref)
    BY <1>5, <1>6
  <2> QED BY <1>1, <2>1, AppendedEntries
<1>8. LedgerSound(entries', settled', Charged(entries'))
  <2>1. LedgerSound(entries, settled, Charged(entries)) /\ n.base \in Int
    BY <1>5 DEF AddsUpInv
  <2>2. LedgerSound(entries \cup {n}, settled, Charged(entries))
    BY <1>5, <2>1, OtherEntry
  <2>3. LedgerSound(entries', settled', Charged(entries))
    BY <1>7, <2>2
  <2> QED BY <2>3 DEF LedgerSound
<1>9. DOMAIN items' = DOMAIN items /\ items'[i] = x /\ \A j \in DOMAIN items \ {i} : items'[j] = items[j]
  BY <1>2, Replaced DEF ItemsInv
<1>10. x.status = "succeeded" /\ x.amount = items[i].amount /\ x.entries = items[i].entries /\ x.state = "approved"
  BY <1>2, <1>3 DEF ItemIsApproved
<1>11. \A j \in DOMAIN items : items'[j].entries = items[j].entries
                               /\ (items'[j].status \in Paying <=> items[j].status \in Paying)
  BY <1>9, <1>10 DEF Paying
<1>12. ASSUME NEW j \in DOMAIN items' PROVE ItemClaim(entries', items'[j])
  <2>1. ItemClaim(entries, items'[j])
    <3>1. ItemClaim(entries, x)
      BY <1>3, <1>10 DEF ItemClaim, Paying
    <3> QED BY <1>9, <3>1 DEF AddsUpInv, ClaimsInv
  <2>2. \A C : MovesWhole(entries, C) => MovesWhole(entries', C)
    BY <1>5, <1>7 DEF MovesWhole
  <2> QED BY <1>7, <2>1, <2>2 DEF ItemClaim
<1>13. Disjoint'
  BY <1>9, <1>11 DEF AddsUpInv, ClaimsInv, Disjoint
<1>14. PayoutEntries' = PayoutEntries \cup {n} /\ PayoutEntries \cap {n} = {}
  BY <1>5, <1>7 DEF PayoutEntries
<1>15. PaidEntries' = PaidEntries \cup items[i].entries /\ PaidEntries \cap items[i].entries = {}
  <2>1. PICK J, K : /\ J = {j \in DOMAIN items : items[j].status = "succeeded"}
                    /\ K = {j \in DOMAIN items' : items'[j].status = "succeeded"}
    OBVIOUS
  <2>2. K = J \cup {i} /\ i \notin J
    BY <1>9, <1>10, <2>1
  <2>3. PaidEntries = UNION {items[j].entries : j \in J} /\ PaidEntries' = UNION {items'[j].entries : j \in K}
    BY <2>1 DEF PaidEntries
  <2>4. \A j \in K : items'[j].entries = items[j].entries
    BY <1>9, <1>11, <2>1
  <2>5. \A j \in J : items[j].entries \cap items[i].entries = {}
    BY <2>1, <2>2 DEF AddsUpInv, ClaimsInv, Disjoint, Paying
  <2> QED BY <2>2, <2>3, <2>4, <2>5
<1>16. SumAmounts(PayoutEntries') + SumAmounts(PaidEntries') = 0
  <2>1. PayoutEntries \in SUBSET entries /\ PaidEntries \in SUBSET entries
    <3>1. \A j \in DOMAIN items : items[j].status = "succeeded" => items[j].entries \subseteq entries
      BY ClaimedAreThere DEF AddsUpInv, Paying
    <3> QED BY <3>1 DEF PayoutEntries, PaidEntries
  <2>2. /\ Amounts(PayoutEntries) /\ Amounts(PaidEntries) /\ Amounts(items[i].entries)
        /\ SumAmounts(PayoutEntries) \in Int /\ SumAmounts(PaidEntries) \in Int
    BY <1>4, <2>1, SoundAmounts DEF AddsUpInv
  <2>3. Amounts({n}) /\ SumAmounts({n}) = -items[i].amount
    BY <1>5, AmountsOfFew
  <2>4. SumAmounts(PayoutEntries') = SumAmounts(PayoutEntries) + -items[i].amount
    <3>1. SumAmounts(PayoutEntries \cup {n}) = SumAmounts(PayoutEntries) + SumAmounts({n})
      BY <1>14, <2>2, <2>3, AmountsOfUnion
    <3> QED BY <1>14, <2>3, <3>1
  <2>5. SumAmounts(PaidEntries') = SumAmounts(PaidEntries) + items[i].amount
    <3>1. SumAmounts(PaidEntries \cup items[i].entries) = SumAmounts(PaidEntries) + SumAmounts(items[i].entries)
      BY <1>15, <2>2, AmountsOfUnion
    <3> QED BY <1>4, <1>15, <3>1
  <2>6. SumAmounts(PayoutEntries) + SumAmounts(PaidEntries) = 0
    BY DEF AddsUpInv, ClaimsInv
  <2> QED BY <1>4, <2>2, <2>4, <2>5, <2>6
<1>17. \A e \in entries' : e.type = "payout" => e.ref \in DOMAIN items' /\ items'[e.ref].status = "succeeded"
  BY <1>5, <1>7, <1>9, <1>10 DEF AddsUpInv, ClaimsInv
<1>18. ClaimsInv'
  BY <1>12, <1>13, <1>16, <1>17 DEF ClaimsInv
<1>19. HeldMoneyStays'
  <2>1. \A j \in DOMAIN items : items[j].status \in Paying => items[j].entries \subseteq entries
    BY ClaimedAreThere DEF AddsUpInv
  <2>2. ASSUME NEW vo, PayoutClaimed(vo)' PROVE PayoutClaimed(vo)
    <3>1. PICK e \in entries' : e.vo = vo /\ e.amount > 0 /\ Claimed(e)'
      BY <2>2 DEF PayoutClaimed
    <3>2. PICK j \in DOMAIN items' : items'[j].status \in Paying /\ e \in items'[j].entries
      BY <3>1 DEF Claimed
    <3>3. j \in DOMAIN items /\ items[j].status \in Paying /\ e \in items[j].entries
      BY <1>9, <1>11, <3>2
    <3> QED BY <2>1, <3>1, <3>3 DEF PayoutClaimed, Claimed
  <2> QED BY <2>2 DEF AddsUpInv, HeldMoneyStays
<1>20. TransactionsInv'
  <2>1. RefundedNow' = RefundedNow /\ \A e \in entries' \ entries : e.type = "payout"
    BY <1>5, <1>7 DEF RefundedNow
  <2> QED BY <1>7, <2>1, TransactionsRest DEF AddsUpInv, TransactionsInv, PostingIsSound
<1> QED BY <1>8, <1>18, <1>19, <1>20 DEF AddsUpInv

LEMMA ResolveAddsUp ==
  ASSUME AddsUpInv, SettlementInv, NEW i \in Items, resolvePayoutItem(i)
  PROVE  AddsUpInv'
<1>1. /\ i \in DOMAIN items /\ items[i].status = "pending" /\ items[i].state = "approved" /\ ItemsInv
      /\ UNCHANGED <<settled, refunds, openTx, holds, orderHolds>>
  BY DEF resolvePayoutItem, ResolvablePayoutItem, AllowsTransfers, SettlementInv
<1>2. CASE request[i].outcome = "failed"
  <2>1. items' = [items EXCEPT ![i] = EndedItem(i, "failed")] /\ entries' = entries
    BY <1>2 DEF resolvePayoutItem
  <2> QED BY <1>1, <2>1, ItemEnds
<1>3. CASE request[i].outcome = "succeeded"
  <2>1. /\ items' = [items EXCEPT ![i] = [items[i] EXCEPT !.status = "succeeded"]]
        /\ entries' = AppendEntries(entries, {Entry("payout", "none", i, -items[i].amount, 0)})
    BY <1>3 DEF resolvePayoutItem
  <2> QED BY <1>1, <2>1, PayoutAddsUp
<1>4. request[i].outcome \in {"failed", "succeeded"}
  BY DEF resolvePayoutItem, ApproveRequest, SettlementInv, RequestsInv, RequestAsks, OpenRequest, Resolved
<1> QED BY <1>2, <1>3, <1>4

(* Nothing payable is claimed, and a commission is payable with its sale.  *)
LEMMA PayableMovesWhole ==
  ASSUME AddsUpInv
  PROVE  /\ PayableEntries \subseteq {e \in entries : e.type # "payout"} /\ \A e \in PayableEntries : ~Claimed(e)
         /\ MovesWhole(entries, PayableEntries)
<1>1. PayableEntries \subseteq {e \in entries : e.type # "payout"} /\ \A e \in PayableEntries : ~Claimed(e)
  BY DEF PayableEntries, Unpaid
<1>2. ASSUME NEW c \in entries, NEW s \in entries, c.type = "commission", s.type = "sale", c.vo = s.vo
      PROVE  c \in PayableEntries <=> s \in PayableEntries
  <2>1. Claimed(c) <=> Claimed(s)
    BY <1>2 DEF Claimed, AddsUpInv, ClaimsInv, ItemClaim, MovesWhole
  <2>2. Payable(c) <=> Payable(s)
    BY <1>2 DEF Payable, Immediate
  <2> QED BY <1>2, <2>1, <2>2 DEF PayableEntries, Unpaid
<1> QED BY <1>1, <1>2 DEF MovesWhole

(* A credit that is payable is not held.                                   *)
LEMMA PayableIsFree ==
  ASSUME AddsUpInv, NEW e \in PayableEntries, e.amount > 0
  PROVE  e.vo \notin ActiveHolds
<1>1. e \in entries /\ e \in Unpaid /\ Payable(e)
  BY DEF PayableEntries, Unpaid
<1>2. EntryIsSound(entries, settled, e)
  BY <1>1 DEF AddsUpInv, LedgerSound
<1>3. ~Immediate(e)
  BY <1>2 DEF EntryIsSound, Immediate
<1>4. e.vo \in Asked
  BY <1>1 DEF Asked
<1> QED BY <1>1, <1>3, <1>4 DEF Payable, HeldOrders

LEMMA CreateAddsUp ==
  ASSUME AddsUpInv, ItemsInv, NEW admin \in Creators, CreatePayoutBatch(admin)
  PROVE  AddsUpInv'
<1>1. PICK x : x = [status |-> "pending", amount |-> SumAmounts(PayableEntries), entries |-> PayableEntries,
                    createdBy |-> admin, state |-> "awaiting_approval",
                    required |-> Required(SumAmounts(PayableEntries)),
                    first |-> NoAdmin, second |-> NoAdmin]
  OBVIOUS
<1>2. items' = Append(items, x) /\ UNCHANGED <<settled, entries, refunds, openTx, holds, orderHolds>>
  BY <1>1 DEF CreatePayoutBatch
<1>3. PICK n : /\ n = Len(items) + 1 /\ DOMAIN items' = DOMAIN items \cup {n} /\ n \notin DOMAIN items
               /\ (\A j \in DOMAIN items : items'[j] = items[j]) /\ items'[n] = x
  <2>1. /\ Len(items) \in Nat /\ DOMAIN items = 1..Len(items) /\ DOMAIN items' = 1..Len(items) + 1
        /\ \A j \in 1..Len(items) : items'[j] = items[j]
        /\ items'[Len(items) + 1] = x
    BY <1>2, Appended DEF ItemsInv
  <2>2. PICK k : k = Len(items)
    OBVIOUS
  <2>3. k \in Nat /\ 1..k + 1 = 1..k \cup {k + 1} /\ k + 1 \notin 1..k
    BY <2>1, <2>2
  <2> QED BY <2>1, <2>2, <2>3
<1>4. x.status = "pending" /\ x.entries = PayableEntries /\ x.amount = SumAmounts(PayableEntries)
  BY <1>1
<1>5. ItemClaim(entries, x)
  BY <1>4, PayableMovesWhole DEF ItemClaim
<1>6. \A j \in DOMAIN items : items[j].status \in Paying => items[j].entries \cap x.entries = {}
  BY <1>4, PayableMovesWhole DEF Claimed
<1>7. \A j \in DOMAIN items' : ItemClaim(entries', items'[j])
  BY <1>2, <1>3, <1>5 DEF AddsUpInv, ClaimsInv
<1>8. Disjoint'
  <2>1. ASSUME NEW i \in DOMAIN items', NEW j \in DOMAIN items', i # j,
               items'[i].status \in Paying, items'[j].status \in Paying
        PROVE  items'[i].entries \cap items'[j].entries = {}
    <3>1. CASE i = n
      BY <1>3, <1>6, <2>1, <3>1
    <3>2. CASE j = n
      BY <1>3, <1>6, <2>1, <3>2
    <3>3. CASE i # n /\ j # n
      BY <1>3, <2>1, <3>3 DEF AddsUpInv, ClaimsInv, Disjoint
    <3> QED BY <3>1, <3>2, <3>3
  <2> QED BY <2>1 DEF Disjoint
<1>9. PayoutEntries' = PayoutEntries
  BY <1>2 DEF PayoutEntries
<1>10. PaidEntries' = PaidEntries
  <2>1. PICK J : J = {j \in DOMAIN items : items[j].status = "succeeded"}
    OBVIOUS
  <2>2. {j \in DOMAIN items' : items'[j].status = "succeeded"} = J
    BY <1>3, <1>4, <2>1
  <2>3. \A j \in J : items'[j].entries = items[j].entries
    BY <1>3, <2>1
  <2> QED BY <2>1, <2>2, <2>3 DEF PaidEntries
<1>11. ClaimsInv'
  <2>1. \A e \in entries' : e.type = "payout" => e.ref \in DOMAIN items' /\ items'[e.ref].status = "succeeded"
    BY <1>2, <1>3 DEF AddsUpInv, ClaimsInv
  <2>2. SumAmounts(PayoutEntries') + SumAmounts(PaidEntries') = 0
    BY <1>9, <1>10 DEF AddsUpInv, ClaimsInv
  <2> QED BY <1>7, <1>8, <2>1, <2>2 DEF ClaimsInv
<1>12. HeldMoneyStays'
  <2> SUFFICES ASSUME NEW h \in HoldIds, holds[h].status = "active", ~holds[h].claimed,
                      NEW e \in entries, e.vo = HoldOrder[h], e.amount > 0, Claimed(e)'
               PROVE  FALSE
    BY <1>2 DEF HeldMoneyStays, PayoutClaimed
  <2>1. ~Claimed(e)
    BY DEF AddsUpInv, HeldMoneyStays, PayoutClaimed
  <2>2. e \in PayableEntries
    BY <1>3, <1>4, <2>1 DEF Claimed
  <2>3. HoldOrder[h] \in ActiveHolds
    BY DEF ActiveHolds
  <2> QED BY <2>2, <2>3, PayableIsFree
<1>13. TransactionsInv'
  <2>1. RefundedNow' = RefundedNow
    BY <1>2 DEF RefundedNow
  <2> QED BY <1>2, <2>1, TransactionsRest DEF AddsUpInv, TransactionsInv, PostingIsSound
<1> QED BY <1>2, <1>11, <1>12, <1>13 DEF AddsUpInv

(* The ledger and its items rest.                                          *)
LEMMA LedgerRests ==
  ASSUME AddsUpInv, UNCHANGED <<settled, entries, items>>, orderHolds' \subseteq VendorOrders,
         refunds' \in [RefundIds -> {"none", "open", "succeeded", "failed"}],
         TransactionsInv',
         holds' \in [HoldIds -> [status : {"none", "active", "released"}, claimed : BOOLEAN]],
         \A h \in HoldIds : holds'[h].status = "active" /\ ~holds'[h].claimed => ~PayoutClaimed(HoldOrder[h])
  PROVE  AddsUpInv'
<1>1. ClaimsInv'
  BY DEF AddsUpInv, ClaimsInv, ItemClaim, Disjoint, PayoutEntries, PaidEntries
<1>2. HeldMoneyStays'
  BY DEF HeldMoneyStays, PayoutClaimed, Claimed
<1> QED BY <1>1, <1>2 DEF AddsUpInv

LEMMA HoldsAddUp ==
  ASSUME AddsUpInv, NEW h \in HoldIds, Acquire(h) \/ Release(h)
  PROVE  AddsUpInv'
<1>1. UNCHANGED <<settled, entries, items, refunds, orderHolds>> /\ TransactionsInv'
  <2>1. UNCHANGED <<settled, entries, items, refunds, orderHolds, openTx>> /\ RefundedNow' = RefundedNow
    BY DEF Acquire, Release, RefundedNow
  <2> QED BY <2>1, TransactionsRest DEF AddsUpInv, TransactionsInv, PostingIsSound
<1>2. holds[h] \in [status : {"none", "active", "released"}, claimed : BOOLEAN]
  BY DEF AddsUpInv
<1>3. CASE Acquire(h)
  <2>1. PICK x : x = [status |-> "active", claimed |-> PayoutClaimed(HoldOrder[h])]
    OBVIOUS
  <2>2. PayoutClaimed(HoldOrder[h]) \in BOOLEAN
    BY DEF PayoutClaimed
  <2>3. /\ x \in [status : {"none", "active", "released"}, claimed : BOOLEAN]
        /\ ~x.claimed => ~PayoutClaimed(HoldOrder[h])
    BY <2>1, <2>2
  <2>4. holds' = [holds EXCEPT ![h] = x]
    BY <1>3, <2>1 DEF Acquire
  <2> QED BY <1>1, <2>3, <2>4, LedgerRests DEF AddsUpInv, HeldMoneyStays
<1>4. CASE Release(h)
  <2>1. PICK x : x = [holds[h] EXCEPT !.status = "released"]
    OBVIOUS
  <2>2. x \in [status : {"none", "active", "released"}, claimed : BOOLEAN] /\ x.status = "released"
    BY <1>2, <2>1
  <2>3. holds' = [holds EXCEPT ![h] = x]
    BY <1>4, <2>1 DEF Release
  <2> QED BY <1>1, <2>2, <2>3, LedgerRests DEF AddsUpInv, HeldMoneyStays
<1> QED BY <1>3, <1>4

(* The other steps of the ledger and of its open transactions.             *)
LEMMA OthersAddUp ==
  ASSUME AddsUpInv,
         \/ \E vo \in VendorOrders : ReturnWindowEnds(vo) \/ OrderHolds(vo) \/ SucceededRefunds(vo) \/ IngestRollsBack(vo)
         \/ \E r \in RefundIds : RefundOpens(r) \/ RefundFails(r) \/ FindOrder(r) \/ PostRollsBack(r)
         \/ AccountChanges \/ UNCHANGED ledgerVars
  PROVE  AddsUpInv'
<1>1. UNCHANGED <<settled, entries, items, holds>>
  BY DEF ReturnWindowEnds, OrderHolds, SucceededRefunds, IngestRollsBack, RefundOpens, RefundFails, FindOrder,
         PostRollsBack, AccountChanges, ledgerVars
<1>2. ASSUME UNCHANGED refunds, UNCHANGED openTx, orderHolds' \subseteq VendorOrders PROVE AddsUpInv'
  <2>1. RefundedNow' = RefundedNow
    BY <1>2 DEF RefundedNow
  <2>2. TransactionsInv'
    BY <1>1, <1>2, <2>1, TransactionsRest DEF AddsUpInv, TransactionsInv, PostingIsSound
  <2> QED BY <1>1, <1>2, <2>2, LedgerRests DEF AddsUpInv, HeldMoneyStays
<1>3. ASSUME NEW r \in RefundIds, RefundOpens(r) \/ RefundFails(r) PROVE AddsUpInv'
  <2>1. /\ refunds' \in [RefundIds -> {"none", "open", "succeeded", "failed"}] /\ UNCHANGED <<orderHolds, openTx>>
        /\ RefundedNow' = RefundedNow
    BY <1>3 DEF RefundOpens, RefundFails, AddsUpInv, RefundedNow
  <2>2. \A q \in DOMAIN posting : refunds'[q] = "open"
    BY <1>3 DEF RefundOpens, RefundFails, AddsUpInv, TransactionsInv, PostingIsSound
  <2>3. TransactionsInv'
    BY <1>1, <2>1, <2>2, TransactionsRest
  <2> QED BY <1>1, <2>1, <2>3, LedgerRests DEF AddsUpInv, HeldMoneyStays
<1>4. ASSUME NEW vo \in VendorOrders, SucceededRefunds(vo) \/ IngestRollsBack(vo) PROVE AddsUpInv'
  <2>1. TransactionsInv'
    BY <1>4, IngestReads
  <2> QED BY <1>1, <1>4, <2>1, LedgerRests DEF AddsUpInv, HeldMoneyStays, SucceededRefunds, IngestRollsBack
<1>5. ASSUME NEW r \in RefundIds, FindOrder(r) \/ PostRollsBack(r) PROVE AddsUpInv'
  <2>1. TransactionsInv'
    BY <1>5, PostReads
  <2> QED BY <1>1, <1>5, <2>1, LedgerRests DEF AddsUpInv, HeldMoneyStays, FindOrder, PostRollsBack
<1>6. \/ UNCHANGED refunds /\ UNCHANGED openTx /\ orderHolds' \subseteq VendorOrders
      \/ \E r \in RefundIds : RefundOpens(r) \/ RefundFails(r) \/ FindOrder(r) \/ PostRollsBack(r)
      \/ \E vo \in VendorOrders : SucceededRefunds(vo) \/ IngestRollsBack(vo)
  BY DEF ReturnWindowEnds, OrderHolds, AccountChanges, ledgerVars, AddsUpInv
<1> QED BY <1>2, <1>3, <1>4, <1>5, <1>6

LEMMA NextKeepsAddsUp == SettlementInv /\ AddsUpInv /\ [SettlementNext]_settlementVars => AddsUpInv'
<1> SUFFICES ASSUME SettlementInv, AddsUpInv, [SettlementNext]_settlementVars PROVE AddsUpInv'
  OBVIOUS
<1>1. ItemsInv
  BY DEF SettlementInv
<1>2. ASSUME NEW i \in Items,
             \/ \E a \in Approvers : ApprovePayoutBatch(i, a)
             \/ ClosePayoutBatch(i) \/ CancelPayoutItem(i)
             \/ \E a \in Creators, outcome \in {"succeeded", "failed"} : DraftTransfer(i, a, outcome)
             \/ resolvePayoutItem(i)
      PROVE  AddsUpInv'
  BY <1>1, <1>2, ApproveAddsUp, CloseAddsUp, ResolveAddsUp, OthersAddUp DEF DraftTransfer
<1>3. UNCHANGED settlementVars => UNCHANGED ledgerVars
  BY DEF settlementVars
<1>4. ASSUME NEW vo \in VendorOrders, IngestStep(vo) \/ ReturnWindowEnds(vo) \/ OrderHolds(vo) PROVE AddsUpInv'
  BY <1>4, IngestAddsUp, OthersAddUp DEF IngestStep
<1>5. ASSUME NEW r \in RefundIds, RefundOpens(r) \/ RefundFails(r) \/ PostStep(r)
      PROVE  AddsUpInv'
  BY <1>5, PostRefundAddsUp, OthersAddUp DEF PostStep
<1>6. ASSUME \/ \E a \in Creators : CreatePayoutBatch(a)
             \/ \E h \in HoldIds : Acquire(h) \/ Release(h)
             \/ \E amount \in Adjustments : adjust(amount)
             \/ AccountChanges
      PROVE  AddsUpInv'
  BY <1>1, <1>6, CreateAddsUp, HoldsAddUp, AdjustAddsUp, OthersAddUp
<1>7. CASE UNCHANGED ledgerVars
  BY <1>7, OthersAddUp
<1> QED BY <1>2, <1>3, <1>4, <1>5, <1>6, <1>7 DEF SettlementNext

LEMMA BalanceHolds == ASSUME AddsUpInv PROVE BalanceIsOwed
<1>1. PICK owed : owed = {e \in entries : e.type # "payout"} \ PaidEntries
  OBVIOUS
<1>2. \A j \in DOMAIN items : items[j].status = "succeeded" =>
        items[j].entries \subseteq entries /\ \A e \in items[j].entries : e.type # "payout"
  BY ClaimedAreThere DEF AddsUpInv, Paying
<1>3. \A e \in PaidEntries : e \in entries /\ e.type # "payout"
  BY <1>2 DEF PaidEntries
<1>4. /\ entries = (PayoutEntries \cup PaidEntries) \cup owed /\ PayoutEntries \cap PaidEntries = {}
      /\ (PayoutEntries \cup PaidEntries) \cap owed = {}
  BY <1>1, <1>3 DEF PayoutEntries
<1>5. /\ Amounts(PayoutEntries) /\ Amounts(PaidEntries) /\ Amounts(owed)
      /\ SumAmounts(PayoutEntries) \in Int /\ SumAmounts(PaidEntries) \in Int /\ SumAmounts(owed) \in Int
  <2>1. PayoutEntries \in SUBSET entries /\ PaidEntries \in SUBSET entries /\ owed \in SUBSET entries
    BY <1>4
  <2> QED BY <2>1, SoundAmounts DEF AddsUpInv
<1>6. /\ SumAmounts(PayoutEntries \cup PaidEntries) = SumAmounts(PayoutEntries) + SumAmounts(PaidEntries)
      /\ Amounts(PayoutEntries \cup PaidEntries)
  BY <1>4, <1>5, AmountsOfUnion
<1>7. SumAmounts(entries) = SumAmounts(PayoutEntries \cup PaidEntries) + SumAmounts(owed)
  BY <1>4, <1>5, <1>6, AmountsOfUnion
<1>8. SumAmounts(entries) = SumAmounts(owed)
  BY <1>5, <1>6, <1>7 DEF AddsUpInv, ClaimsInv
<1> QED BY <1>1, <1>8 DEF BalanceIsOwed, AddsUpInv, ClaimsInv, Disjoint, PaidEntries

LEMMA ChargesHold == ASSUME AddsUpInv PROVE RefundsCharged
<1> SUFFICES ASSUME NEW vo \in settled
             PROVE  /\ ChargedTo(vo) \subseteq SucceededOf(vo)
                    /\ vo \notin crowded => /\ ChargedTo(vo) = SucceededOf(vo)
                                           /\ RefundAttribution(entries, vo).reversed <= Commission
  BY DEF RefundsCharged
<1>1. vo \in VendorOrders
  BY DEF AddsUpInv
<1>2. \A e \in entries : e.type = "refund" => e.ref \in RefundIds /\ e.vo = RefundOrder[e.ref]
  BY DEF AddsUpInv, LedgerSound, EntryIsSound
<1>3. ChargedTo(vo) = {r \in Charged(entries) : RefundOrder[r] = vo} /\ Charged(entries) \subseteq RefundIds
  BY <1>2 DEF ChargedTo, Charged
<1>4. ChargedTo(vo) \subseteq SucceededOf(vo)
  BY <1>3 DEF AddsUpInv, TransactionsInv, RefundedNow, SucceededOf
<1>5. ASSUME vo \notin crowded
      PROVE  ChargedTo(vo) = SucceededOf(vo) /\ RefundAttribution(entries, vo).reversed <= Commission
  <2>1. Calm(vo)
    BY <1>1, <1>5 DEF AddsUpInv, TransactionsInv
  <2>2. SucceededOf(vo) \subseteq ChargedTo(vo)
    BY <1>3, <2>1 DEF Calm, SucceededOf
  <2>3. RefundAttribution(entries, vo).reversed = SumAmounts(Reversals(entries, vo))
    BY DEF RefundAttribution, Reversals
  <2> QED BY <1>4, <2>1, <2>2, <2>3 DEF Calm, Capped
<1> QED BY <1>4, <1>5

(* The statement holds back what a payout would.                           *)
LEMMA HeldAlike ==
  ASSUME AddsUpInv, NEW e \in Unpaid, ~Immediate(e)
  PROVE  e.vo \in HeldOrders <=> StatementHeld(e)
<1>1. e \in entries /\ e.type # "payout" /\ EntryIsSound(entries, settled, e)
  BY DEF Unpaid, AddsUpInv, LedgerSound
<1>2. ActiveHolds \subseteq VendorOrders /\ OpenRefundVendorOrders \subseteq VendorOrders /\ orderHolds \subseteq VendorOrders
  BY SettlementAssumption DEF ActiveHolds, OpenRefundVendorOrders, AddsUpInv
<1>3. CASE e.type = "adjustment"
  <2>1. e.vo \notin VendorOrders
    BY <1>1, <1>3, SettlementAssumption DEF EntryIsSound
  <2> QED BY <1>2, <2>1 DEF HeldOrders, StatementHeld
<1>4. CASE e.type # "adjustment"
  <2>1. e.vo \in Asked
    <3>1. CASE e.type = "commission"
      <4>1. PICK s \in entries : s.type = "sale" /\ s.vo = e.vo
        BY <1>1, <3>1 DEF EntryIsSound
      <4>2. ~Claimed(s)
        BY <1>1, <3>1, <4>1 DEF Unpaid, Claimed, AddsUpInv, ClaimsInv, ItemClaim, MovesWhole
      <4>3. s \in Unpaid /\ s.amount > 0
        BY <4>1, <4>2 DEF Unpaid, AddsUpInv, LedgerSound, EntryIsSound
      <4> QED BY <4>1, <4>3 DEF Asked
    <3>2. CASE e.type # "commission"
      <4>1. e.amount > 0
        BY <1>1, <1>4, <3>2 DEF EntryIsSound, Immediate
      <4> QED BY <4>1 DEF Asked
    <3> QED BY <3>1, <3>2
  <2>2. e.vo \in {u.vo : u \in Unpaid}
    OBVIOUS
  <2> QED BY <2>1, <2>2 DEF HeldOrders, StatementHeld
<1> QED BY <1>3, <1>4

LEMMA StatementHolds == ASSUME AddsUpInv PROVE StatementAddsUp
<1>1. PICK waiting, free, due :
        /\ waiting = {e \in Unpaid : ~StatementImmediate(e)}
        /\ free = {e \in waiting : ~StatementHeld(e)}
        /\ due = {e \in free : e.vo \in eligible \/ e.type = "adjustment"}
  OBVIOUS
<1>2. PICK held, young, payable, pending :
        /\ held = waiting \ free /\ young = free \ due /\ payable = due \cup (Unpaid \ waiting)
        /\ pending = StatementPending
  OBVIOUS
<1>3. /\ Statement.closing = SumAmounts(entries) /\ Statement.pending = SumAmounts(pending)
      /\ Statement.held = SumAmounts(held) /\ Statement.notEligible = SumAmounts(young)
      /\ Statement.payable = SumAmounts(payable)
  BY <1>1, <1>2 DEF Statement
<1>4. payable = PayableEntries
  <2>1. ASSUME NEW e \in Unpaid PROVE e \in payable <=> Payable(e)
    <3>1. CASE Immediate(e)
      BY <1>1, <1>2, <2>1, <3>1 DEF Payable, Immediate, StatementImmediate
    <3>2. CASE ~Immediate(e)
      <4>1. e.vo \in HeldOrders <=> StatementHeld(e)
        BY <2>1, <3>2, HeldAlike
      <4>2. e \in waiting
        BY <1>1, <2>1, <3>2 DEF Immediate, StatementImmediate
      <4> QED BY <1>1, <1>2, <3>2, <4>1, <4>2 DEF Payable
    <3> QED BY <3>1, <3>2
  <2>2. payable \subseteq Unpaid
    BY <1>1, <1>2
  <2> QED BY <2>1, <2>2 DEF PayableEntries
<1>5. PICK owed : owed = {e \in entries : e.type # "payout"} \ PaidEntries
  OBVIOUS
<1>6. SumAmounts(entries) = SumAmounts(owed)
  BY <1>5, BalanceHolds DEF BalanceIsOwed, PaidEntries
<1>7. owed = pending \cup Unpaid /\ pending \cap Unpaid = {}
  <2>1. \A e : e \in PaidEntries <=> \E i \in DOMAIN items : items[i].status = "succeeded" /\ e \in items[i].entries
    BY DEF PaidEntries
  <2>2. \A e : e \in pending <=>
               e \in entries /\ \E i \in DOMAIN items : items[i].status = "pending" /\ e \in items[i].entries
    BY <1>2 DEF StatementPending
  <2>3. \A e \in pending : e.type # "payout" /\ Claimed(e)
    BY <2>2, ClaimedAreThere DEF AddsUpInv, Paying, Claimed
  <2>4. \A e \in pending : e \notin PaidEntries
    <3>1. ASSUME NEW e \in pending, e \in PaidEntries PROVE FALSE
      <4>1. PICK i \in DOMAIN items : items[i].status = "pending" /\ e \in items[i].entries
        BY <2>2, <3>1
      <4>2. PICK j \in DOMAIN items : items[j].status = "succeeded" /\ e \in items[j].entries
        BY <2>1, <3>1
      <4> QED BY <4>1, <4>2 DEF AddsUpInv, ClaimsInv, Disjoint, Paying
    <3> QED BY <3>1
  <2>5. \A e \in entries : Claimed(e) <=> e \in pending \/ e \in PaidEntries
    BY <2>1, <2>2 DEF Claimed, Paying
  <2> QED BY <1>5, <2>2, <2>3, <2>4, <2>5 DEF Unpaid
<1>8. /\ Unpaid = (held \cup young) \cup payable /\ held \cap young = {} /\ (held \cup young) \cap payable = {}
  BY <1>1, <1>2
<1>9. /\ Amounts(pending) /\ Amounts(held) /\ Amounts(young) /\ Amounts(payable) /\ Amounts(Unpaid)
      /\ SumAmounts(pending) \in Int /\ SumAmounts(held) \in Int /\ SumAmounts(young) \in Int
      /\ SumAmounts(payable) \in Int
  <2>1. owed \in SUBSET entries
    BY <1>5
  <2>2. /\ pending \in SUBSET entries /\ held \in SUBSET entries /\ young \in SUBSET entries
        /\ payable \in SUBSET entries /\ Unpaid \in SUBSET entries
    BY <1>7, <1>8, <2>1
  <2> QED BY <2>2, SoundAmounts DEF AddsUpInv
<1>10. /\ SumAmounts(held \cup young) = SumAmounts(held) + SumAmounts(young) /\ Amounts(held \cup young)
  BY <1>8, <1>9, AmountsOfUnion
<1>11. SumAmounts(Unpaid) = SumAmounts(held \cup young) + SumAmounts(payable)
  BY <1>8, <1>9, <1>10, AmountsOfUnion
<1>12. SumAmounts(owed) = SumAmounts(pending) + SumAmounts(Unpaid)
  BY <1>7, <1>9, AmountsOfUnion
<1>13. SumAmounts(entries) = SumAmounts(held) + SumAmounts(young) + SumAmounts(payable) + SumAmounts(pending)
  BY <1>6, <1>9, <1>10, <1>11, <1>12
<1> QED BY <1>3, <1>4, <1>13 DEF StatementAddsUp

LEMMA LedgerAddsUp == AddsUpInv => BalanceIsOwed /\ HeldMoneyStays /\ RefundsCharged /\ StatementAddsUp
BY BalanceHolds, ChargesHold, StatementHolds DEF AddsUpInv

-----------------------------------------------------------------------------
(***************************************************************************)
(* Refunds commit no more than the capture.                                *)
(***************************************************************************)
(* What each refund commits of the capture, and what it sent back.         *)
Commits == [f \in Refunds |-> IF refund[f].status = "failed" THEN 0 ELSE refund[f].amount]
SentBack == [f \in Refunds |-> sent[f] * refund[f].amount]

SumsTypeOK ==
  /\ refund \in [Refunds -> [status : {"none", "awaiting_provider_refund"} \cup Resolved, amount : Nat]]
  /\ sent \in [Refunds -> Nat]

CommittedInv ==
  /\ Committed <= Capture
  /\ \A f \in Refunds : refund[f].status = "none" => refund[f].amount = 0

LEMMA TotalOfNothing ==
  ASSUME NEW w, NEW S, IsFiniteSet(S), \A x \in S : w[x] = 0
  PROVE  Total(w, S) = 0
<1>1. PICK Bad : Bad = {s \in SUBSET S : Total(w, s) # 0}
  OBVIOUS
<1>2. \A s \in SUBSET S : IsFiniteSet(s) /\ Weighs(w, s)
  BY FS_Subset DEF Weighs
<1>3. SUFFICES ASSUME Bad # {} PROVE FALSE
  BY <1>1
<1>4. PICK s \in Bad : \A t \in Bad : t \subseteq s => t = s
  <2>1. Bad \subseteq SUBSET S
    BY <1>1
  <2> QED BY <1>3, <2>1, SmallestPart
<1>5. Total(w, {}) = 0
  BY <1>2, TotalIs
<1>6. PICK x \in s : TRUE
  BY <1>1, <1>4, <1>5
<1>7. PICK t : t = s \ {x}
  OBVIOUS
<1>8. t \subseteq s /\ t # s /\ t \in SUBSET S /\ s \in SUBSET S /\ w[x] = 0
  BY <1>1, <1>4, <1>6, <1>7
<1>9. Total(w, t) = 0
  BY <1>1, <1>4, <1>8
<1>10. Total(w, s) = w[x] + Total(w, t)
  BY <1>2, <1>6, <1>7, <1>8, TotalWithout
<1>11. Total(w, s) = 0
  BY <1>8, <1>9, <1>10
<1> QED BY <1>1, <1>4, <1>11

LEMMA CommittedIsTotal ==
  ASSUME SumsTypeOK
  PROVE  Committed = Total(Commits, Refunds) /\ Weighs(Commits, Refunds) /\ Total(Commits, Refunds) \in Int
<1>1. IsFiniteSet(Refunds)
  BY RefundsAssumption
<1>2. Weighs(Commits, Refunds)
  BY DEF Weighs, Commits, SumsTypeOK
<1> DEFINE Summing(g) ==
             g = [s \in SUBSET Refunds |->
                    IF s = {} THEN 0
                    ELSE (IF refund[Pick(s)].status = "failed" THEN 0 ELSE refund[Pick(s)].amount) + g[s \ {Pick(s)}]]
<1>3. \A g : Summing(g) <=> Sums(g, Commits, Refunds)
  <2>1. ASSUME NEW s \in SUBSET Refunds, s # {}
        PROVE  Commits[Pick(s)] = IF refund[Pick(s)].status = "failed" THEN 0 ELSE refund[Pick(s)].amount
    <3>1. Pick(s) \in Refunds
      BY <2>1, PickIsIn
    <3> QED BY <3>1 DEF Commits
  <2> QED BY <2>1 DEF Sums
<1>4. Committed = (CHOOSE g : Summing(g))[Refunds]
  BY DEF Committed, MapThenSumSet, MapThenFoldSet, Pick
<1> HIDE DEF Summing
<1>5. \E g : Summing(g)
  BY <1>1, <1>2, <1>3, TotalOfParts
<1>6. PICK g : Summing(g) /\ Committed = g[Refunds]
  BY <1>4, <1>5
<1>7. g[Refunds] = Total(Commits, Refunds)
  BY <1>1, <1>2, <1>3, <1>6, TotalIsSum
<1> QED BY <1>1, <1>2, <1>6, <1>7, TotalIs

LEMMA CommittedIsEnough ==
  ASSUME SumsTypeOK, CommittedInv, \A f \in Refunds : MoneySent(f)
  PROVE  WithinCapture
<1>1. IsFiniteSet(Refunds)
  BY RefundsAssumption
<1>2. \A f \in Refunds : SentBack[f] \in Int /\ SentBack[f] <= Commits[f]
  <2>1. ASSUME NEW f \in Refunds PROVE SentBack[f] \in Int /\ SentBack[f] <= Commits[f]
    <3>1. /\ refund[f].amount \in Nat /\ sent[f] \in {0, 1} /\ (sent[f] = 1 => refund[f].status # "failed")
      BY DEF SumsTypeOK, MoneySent, OpenRefund
    <3>2. SentBack[f] = IF sent[f] = 1 THEN refund[f].amount ELSE 0
      BY <3>1 DEF SentBack
    <3> QED BY <3>1, <3>2 DEF Commits
  <2> QED BY <2>1
<1>3. Weighs(SentBack, Refunds)
  BY <1>2 DEF Weighs
<1>4. Committed = Total(Commits, Refunds) /\ Weighs(Commits, Refunds) /\ Total(Commits, Refunds) \in Int
  BY CommittedIsTotal
<1>5. Total(SentBack, Refunds) <= Total(Commits, Refunds) /\ Total(SentBack, Refunds) \in Int
  BY <1>1, <1>2, <1>3, <1>4, TotalAtMost, TotalIs
<1> DEFINE Summing(g) ==
             g = [s \in SUBSET Refunds |->
                    IF s = {} THEN 0 ELSE sent[Pick(s)] * refund[Pick(s)].amount + g[s \ {Pick(s)}]]
<1>6. \A g : Summing(g) <=> Sums(g, SentBack, Refunds)
  <2>1. ASSUME NEW s \in SUBSET Refunds, s # {}
        PROVE  SentBack[Pick(s)] = sent[Pick(s)] * refund[Pick(s)].amount
    <3>1. Pick(s) \in Refunds
      BY <2>1, PickIsIn
    <3> QED BY <3>1 DEF SentBack
  <2> QED BY <2>1 DEF Sums
<1>7. PICK total : total = MapThenSumSet(LAMBDA f : sent[f] * refund[f].amount, Refunds)
  OBVIOUS
<1>8. total = (CHOOSE g : Summing(g))[Refunds]
  BY <1>7 DEF MapThenSumSet, MapThenFoldSet, Pick
<1> HIDE DEF Summing
<1>9. \E g : Summing(g)
  BY <1>1, <1>3, <1>6, TotalOfParts
<1>10. PICK g : Summing(g) /\ total = g[Refunds]
  BY <1>8, <1>9
<1>11. total = Total(SentBack, Refunds)
  BY <1>1, <1>3, <1>6, <1>10, TotalIsSum
<1>12. total <= Capture
  BY <1>4, <1>5, <1>11, RefundsAssumption DEF CommittedInv
<1> QED BY <1>7, <1>12 DEF WithinCapture

LEMMA StartCommitsNothing == RefundsStart => CommittedInv /\ WithinCapture
<1> SUFFICES ASSUME RefundsStart PROVE CommittedInv /\ WithinCapture
  OBVIOUS
<1>1. SumsTypeOK /\ \A f \in Refunds : MoneySent(f) /\ Commits[f] = 0 /\ refund[f].amount = 0
  BY DEF RefundsStart, SumsTypeOK, MoneySent, OpenRefund, Commits, NoAttempt
<1>2. Total(Commits, Refunds) = 0
  BY <1>1, TotalOfNothing, RefundsAssumption
<1>3. Committed = 0
  BY <1>1, <1>2, CommittedIsTotal
<1>4. CommittedInv
  BY <1>1, <1>3, RefundsAssumption DEF CommittedInv
<1> QED BY <1>1, <1>4, CommittedIsEnough

(* One refund moves: it commits what the cap still allows, or no more than *)
(* before.                                                                 *)
LEMMA OneCommits ==
  ASSUME SumsTypeOK, SumsTypeOK', CommittedInv, NEW f \in Refunds, NEW x,
         refund' = [refund EXCEPT ![f] = x], x.status # "none", NEW more \in Int,
         Commits'[f] <= Commits[f] + more, Committed + more <= Capture
  PROVE  CommittedInv'
<1>1. IsFiniteSet(Refunds)
  BY RefundsAssumption
<1>2. \A g \in Refunds \ {f} : refund'[g] = refund[g]
  OBVIOUS
<1>3. refund'[f] = x
  BY DEF SumsTypeOK
<1>4. PICK w, v : w = Commits /\ v = Commits'
  OBVIOUS
<1>5. /\ Committed = Total(w, Refunds) /\ Weighs(w, Refunds) /\ Total(w, Refunds) \in Int
  BY <1>4, CommittedIsTotal
<1>6. /\ Committed' = Total(v, Refunds) /\ Weighs(v, Refunds) /\ Total(v, Refunds) \in Int
  <2>1. (Committed = Total(Commits, Refunds) /\ Weighs(Commits, Refunds) /\ Total(Commits, Refunds) \in Int)'
    BY CommittedIsTotal, PTL
  <2> QED BY <1>4, <2>1
<1>7. \A g \in Refunds \ {f} : w[g] = v[g]
  BY <1>2, <1>4 DEF Commits
<1>8. w[f] \in Int /\ v[f] \in Int /\ v[f] <= w[f] + more
  BY <1>4, <1>5, <1>6 DEF Weighs
<1>9. Total(v, Refunds) = Total(w, Refunds) + v[f] - w[f]
  BY <1>1, <1>5, <1>7, <1>8, TotalChanges
<1>10. Committed' <= Capture
  BY <1>5, <1>6, <1>8, <1>9, RefundsAssumption
<1>11. \A g \in Refunds : refund'[g].status = "none" => refund'[g].amount = 0
  BY <1>2, <1>3 DEF CommittedInv
<1> QED BY <1>10, <1>11 DEF CommittedInv

LEMMA RequestCommits ==
  ASSUME SumsTypeOK, SumsTypeOK', CommittedInv, NEW f \in Refunds, NEW amount \in 1..Capture,
         RequestRefund(f, amount)
  PROVE  CommittedInv'
<1>1. PICK x : x = [status |-> "awaiting_provider_refund", amount |-> amount]
  OBVIOUS
<1>2. refund' = [refund EXCEPT ![f] = x] /\ refund[f].status = "none" /\ amount <= Capture - Committed
  BY <1>1 DEF RequestRefund, CheckRefundable
<1>3. refund'[f] = x /\ x.status = "awaiting_provider_refund" /\ x.amount = amount /\ amount \in Int
  BY <1>1, <1>2 DEF SumsTypeOK
<1>4. Commits[f] = 0 /\ Commits'[f] = amount
  BY <1>2, <1>3 DEF Commits, CommittedInv
<1>5. Committed \in Int /\ Capture \in Int
  BY CommittedIsTotal, RefundsAssumption
<1>6. Committed + amount <= Capture /\ Commits'[f] <= Commits[f] + amount
  BY <1>2, <1>3, <1>4, <1>5
<1> QED BY <1>2, <1>3, <1>6, OneCommits

LEMMA ResolveCommits ==
  ASSUME SumsTypeOK, SumsTypeOK', CommittedInv, NEW f \in Refunds, OpenRefund(f), NEW outcome \in Resolved,
         Resolve(f, outcome)
  PROVE  CommittedInv'
<1>1. PICK x : x = [refund[f] EXCEPT !.status = outcome]
  OBVIOUS
<1>2. refund' = [refund EXCEPT ![f] = x]
  BY <1>1 DEF Resolve
<1>3. refund[f].amount \in Nat /\ x.status = outcome /\ x.amount = refund[f].amount /\ refund'[f] = x
  BY <1>1, <1>2 DEF SumsTypeOK
<1>4. Commits[f] = refund[f].amount /\ Commits'[f] \in {0, refund[f].amount}
  BY <1>3 DEF Commits, OpenRefund
<1>5. Committed + 0 <= Capture /\ Commits'[f] <= Commits[f] + 0
  <2>1. Committed \in Int /\ Committed <= Capture
    BY CommittedIsTotal DEF CommittedInv
  <2> QED BY <1>3, <1>4, <2>1
<1>6. 0 \in Int /\ x.status # "none"
  BY <1>3 DEF Resolved
<1> QED BY <1>2, <1>5, <1>6, OneCommits

LEMMA CommitsRest ==
  ASSUME SumsTypeOK, SumsTypeOK', CommittedInv, UNCHANGED refund
  PROVE  CommittedInv'
<1>1. Commits' = Commits
  BY DEF Commits
<1>2. Committed = Total(Commits, Refunds) /\ (Committed = Total(Commits, Refunds))'
  BY CommittedIsTotal, PTL
<1>3. Committed' = Committed
  BY <1>1, <1>2
<1> QED BY <1>3 DEF CommittedInv

LEMMA NextKeepsCommitted ==
  RefundsInv /\ CommittedInv /\ [RefundsNext]_workflowVars => CommittedInv'
<1> SUFFICES ASSUME RefundsInv, CommittedInv, [RefundsNext]_workflowVars PROVE CommittedInv'
  OBVIOUS
<1>1. SumsTypeOK /\ SumsTypeOK'
  BY NextInv DEF RefundsInv, RefundsTypeOK, SumsTypeOK
<1>2. CASE UNCHANGED refund
  BY <1>1, <1>2, CommitsRest
<1>3. ASSUME NEW f \in Refunds, NEW amount \in 1..Capture, RequestRefund(f, amount) PROVE CommittedInv'
  BY <1>1, <1>3, RequestCommits
<1>4. ASSUME NEW f \in Refunds, execute(f) PROVE CommittedInv'
  <2>1. OpenRefund(f) /\ Resolve(f, request[f].outcome) /\ request[f].outcome \in Resolved
    BY <1>4 DEF execute, ApproveRequest, RefundsInv, RefundInv, RequestAsks, OpenRequest
  <2> QED BY <1>1, <2>1, ResolveCommits
<1>5. ASSUME NEW f \in Refunds, NEW a \in Admins, ConfirmAttempt(f, a) PROVE CommittedInv'
  <2>1. OpenRefund(f) /\ Resolve(f, "succeeded") /\ "succeeded" \in Resolved
    BY <1>5 DEF ConfirmAttempt, Resolved
  <2> QED BY <1>1, <2>1, ResolveCommits
<1>6. \/ UNCHANGED refund
      \/ \E f \in Refunds, amount \in 1..Capture : RequestRefund(f, amount)
      \/ \E f \in Refunds : execute(f)
      \/ \E f \in Manual, a \in Admins : ConfirmAttempt(f, a)
  BY DEF RefundsNext, Requests, Workflow, Delivery, DraftResolution, SubmitDestination, DecideDestination,
         PrepareAttempt, Claim, CancelAttempt, SubmitAttempt, FailAttempt, TransferMoney, LeaseRunsOut, ExpireClaims,
         Dispatch, Requeue, MarkRejected, SwitchWorkflow, workflowVars, refundVars, syncOnly
<1>7. Manual \subseteq Refunds
  BY RefundsAssumption
<1> QED BY <1>2, <1>3, <1>4, <1>5, <1>6, <1>7

-----------------------------------------------------------------------------
(***************************************************************************)
(* The composition: a step of it is a step or a stutter of every component *)
(* but the ledger, which shares its requests with the refunds.             *)
(***************************************************************************)
LEMMA MoneyStartsComponents ==
  MoneyInit => EvidenceInit /\ ReimbursementsInit /\ IntentsInit /\ ReceiptsInit
BY DEF MoneyInit

LEMMA MoneyStepsComponents ==
  [MoneyNext]_moneyVars =>
    /\ [EvidenceNext]_evidenceVars
    /\ [ReimbursementsNext]_reimbursementVars
    /\ [IntentsNext]_intentsVars
    /\ [ReceiptsNext]_receiptsVars
<1> SUFFICES ASSUME [MoneyNext]_moneyVars
             PROVE  /\ EvidenceNext \/ UNCHANGED evidenceVars
                    /\ ReimbursementsNext \/ UNCHANGED reimbursementVars
                    /\ IntentsNext \/ UNCHANGED intentsVars
                    /\ ReceiptsNext \/ UNCHANGED receiptsVars
  OBVIOUS
<1>1. CASE UNCHANGED moneyVars
  BY <1>1 DEF moneyVars
<1>2. CASE MoneyNext
  <2>1. \/ Only("refunds") \/ Only("settlement")
        \/ Only("evidence") /\ EvidenceNext
        \/ Only("reimbursements") /\ ReimbursementsNext
        \/ Only("intents") /\ IntentsNext
        \/ Only("receipts") /\ ReceiptsNext
    BY <1>2 DEF MoneyNext
  <2> QED BY <2>1 DEF Only
<1> QED BY <1>1, <1>2

(* Every behaviour of the composition is one of each of its components.    *)
THEOREM MoneyRunsComponents ==
  MoneySpec => EvidenceSpec /\ ReimbursementsSpec /\ IntentsSpec /\ ReceiptsSpec
<1> QED BY MoneyStartsComponents, MoneyStepsComponents, PTL
        DEF MoneySpec, EvidenceSpec, ReimbursementsSpec, IntentsSpec, ReceiptsSpec

(* The ledger moves, or has no payouts.                                    *)
LedgerInv == IF focus = "settlement" THEN SettlementInv ELSE items = << >>

LEMMA MoneyKeepsLedgerInv == MoneySpec => []LedgerInv
<1>1. MoneyInit => LedgerInv
  BY InitHasSettlementInv DEF MoneyInit, LedgerInv, SettlementInit, LedgerInit
<1>2. LedgerInv /\ [MoneyNext]_moneyVars => LedgerInv'
  <2> SUFFICES ASSUME LedgerInv, [MoneyNext]_moneyVars PROVE LedgerInv'
    OBVIOUS
  <2>1. CASE focus # "settlement"
    <3>1. UNCHANGED <<focus, items>>
      BY <2>1 DEF MoneyNext, Only, moneyVars, ledgerVars
    <3> QED BY <2>1, <3>1 DEF LedgerInv
  <2>2. CASE focus = "settlement"
    <3>1. UNCHANGED focus /\ (SettlementNext \/ UNCHANGED settlementVars)
      BY <2>2 DEF MoneyNext, Only, moneyVars, settlementVars
    <3>2. SettlementInv'
      BY <2>2, <3>1, NextKeepsSettlementInv DEF LedgerInv
    <3> QED BY <2>2, <3>1, <3>2 DEF LedgerInv
  <2> QED BY <2>1, <2>2
<1> QED BY <1>1, <1>2, PTL DEF MoneySpec

(* Nothing is paid, captured or applied on one word: payouts and           *)
(* reimbursements have two admins, a captured intent a paid link, a        *)
(* receipt one decision, and a transfer's receipt its object.              *)
THEOREM PaymentsAlwaysProven == MoneySpec => []PaymentsAreProven
<1>1. LedgerInv => PayoutsAreApproved
  <2>1. items = << >> => PayoutsAreApproved
    BY EmptySeq DEF PayoutsAreApproved
  <2> QED BY <2>1, SettlementInvApproves DEF LedgerInv
<1> QED BY <1>1, MoneyKeepsLedgerInv, MoneyRunsComponents, AlwaysPaidByTwoAdmins, CaptureAlwaysReal,
           ReceiptAlwaysAppliedOnce, FreshEvidenceAlwaysKept, PTL DEF PaymentsAreProven

(* A captured payment stays captured in the composition too.               *)
THEOREM CaptureFinalForMoney == MoneySpec => CaptureIsFinal
<1> QED BY MoneyRunsComponents, CaptureAlwaysFinal, PTL

RefundsHold == OutcomeMatchesMoney /\ DestinationFrozen

(* The refunds move, or rest where their properties hold.                  *)
WorkflowInv == RefundsHold /\ (focus = "refunds" => RefundsInv)

(* What a refund's status says happened to the money, and where the money  *)
(* goes, holds beside the other components too.                            *)
THEOREM RefundsHoldForMoney == MoneySpec => [](OutcomeMatchesMoney /\ DestinationFrozen)
<1>1. RefundsInv => RefundsHold
  <2>1. RefundsInv => OutcomeMatchesMoney
    BY DEF RefundsInv, RefundsTypeOK, RefundInv, MoneySent, ToldTheOutcome, OutcomeMatchesMoney, OpenRefund, Resolved
  <2>2. RefundsInv => DestinationFrozen
    BY DEF RefundsInv, RefundInv, DestinationIsNewest, DestinationFrozen, Active
  <2> QED BY <2>1, <2>2 DEF RefundsHold
<1>2. MoneyInit => WorkflowInv
  <2>1. RefundsStart => RefundsHold
    BY DEF RefundsStart, RefundsHold, OutcomeMatchesMoney, DestinationFrozen, NoAttempt
  <2>2. MoneyInit => RefundsStart /\ (focus = "refunds" => RefundsInv)
    BY InitInv DEF MoneyInit, RefundsInit
  <2> QED BY <2>1, <2>2 DEF WorkflowInv
<1>3. WorkflowInv /\ [MoneyNext]_moneyVars => WorkflowInv'
  <2> SUFFICES ASSUME WorkflowInv, [MoneyNext]_moneyVars PROVE WorkflowInv'
    OBVIOUS
  <2>1. CASE focus # "refunds"
    <3>1. focus' = focus /\ UNCHANGED refundVars
      BY <2>1 DEF MoneyNext, Only, moneyVars
    <3>2. RefundsHold'
      BY <3>1 DEF WorkflowInv, RefundsHold, OutcomeMatchesMoney, DestinationFrozen, refundVars
    <3> QED BY <2>1, <3>1, <3>2 DEF WorkflowInv
  <2>2. CASE focus = "refunds"
    <3>1. focus' = focus /\ (RefundsNext \/ UNCHANGED workflowVars)
      BY <2>2 DEF MoneyNext, Only, moneyVars, workflowVars
    <3>2. RefundsInv'
      BY <2>2, <3>1, NextInv DEF WorkflowInv
    <3>3. RefundsHold'
      BY <1>1, <3>2, PTL
    <3> QED BY <3>2, <3>3 DEF WorkflowInv
  <2> QED BY <2>1, <2>2
<1> QED BY <1>2, <1>3, PTL DEF MoneySpec, WorkflowInv, RefundsHold

(* The ledger and the refunds, where they move and where they rest.        *)
AmountsInv ==
  /\ AddsUpInv
  /\ SumsTypeOK /\ CommittedInv /\ \A f \in Refunds : MoneySent(f)
  /\ focus = "refunds" => RefundsInv

LEMMA MoneyStartsSound == MoneyInit => AmountsInv
<1> SUFFICES ASSUME MoneyInit PROVE AmountsInv
  OBVIOUS
<1>1. LedgerInit /\ RefundsStart /\ (focus = "refunds" => RefundsInit)
  BY DEF MoneyInit, RefundsInit
<1>2. SumsTypeOK /\ \A f \in Refunds : MoneySent(f)
  BY <1>1 DEF RefundsStart, SumsTypeOK, MoneySent, OpenRefund, NoAttempt
<1> QED BY <1>1, <1>2, InitAddsUp, InitInv, StartCommitsNothing DEF AmountsInv

LEMMA RefundsKeepSums ==
  ASSUME AmountsInv, [MoneyNext]_moneyVars
  PROVE  SumsTypeOK' /\ CommittedInv' /\ (\A f \in Refunds : MoneySent(f)') /\ (focus' = "refunds" => RefundsInv')
<1>1. CASE focus # "refunds"
  <2>1. focus' = focus /\ UNCHANGED refundVars
    BY <1>1 DEF MoneyNext, Only, moneyVars
  <2>2. SumsTypeOK' /\ \A f \in Refunds : MoneySent(f)'
    BY <2>1 DEF AmountsInv, SumsTypeOK, MoneySent, OpenRefund, refundVars
  <2>3. CommittedInv'
    BY <2>1, <2>2, CommitsRest DEF AmountsInv, refundVars
  <2> QED BY <1>1, <2>1, <2>2, <2>3
<1>2. CASE focus = "refunds"
  <2>1. focus' = focus /\ (RefundsNext \/ UNCHANGED workflowVars)
    BY <1>2 DEF MoneyNext, Only, moneyVars, workflowVars
  <2>2. RefundsInv'
    BY <1>2, <2>1, NextInv DEF AmountsInv
  <2>3. CommittedInv'
    BY <1>2, <2>1, NextKeepsCommitted DEF AmountsInv
  <2> QED BY <2>2, <2>3 DEF RefundsInv, RefundsTypeOK, SumsTypeOK, RefundInv
<1> QED BY <1>1, <1>2

LEMMA LedgerKeepsSums ==
  ASSUME AmountsInv, LedgerInv, [MoneyNext]_moneyVars
  PROVE  AddsUpInv'
<1>1. CASE focus # "settlement"
  <2>1. UNCHANGED ledgerVars
    BY <1>1 DEF MoneyNext, Only, moneyVars
  <2> QED BY <2>1, OthersAddUp DEF AmountsInv
<1>2. CASE focus = "settlement"
  <2>1. SettlementNext \/ UNCHANGED settlementVars
    BY <1>2 DEF MoneyNext, Only, moneyVars, settlementVars
  <2> QED BY <1>2, <2>1, NextKeepsAddsUp DEF AmountsInv, LedgerInv
<1> QED BY <1>1, <1>2

(* The amounts agree, for any prices, commission, refunds, holds and       *)
(* adjustments: refunds stay within the capture, the ledger's balance is   *)
(* what is still owed, held credits stay, only succeeded refunds are       *)
(* charged, all of them where no two transactions of a vendor order were   *)
(* open at once, and the vendor's statement adds up (CheckRefundable,      *)
(* IngestVendorOrder, PostRefund, CreatePayoutBatch,                       *)
(* StatementRepository.Read).                                              *)
THEOREM MoneyAlwaysAddsUp == MoneySpec => []MoneyAddsUp
<1>1. AmountsInv /\ LedgerInv /\ [MoneyNext]_moneyVars => AmountsInv'
  BY RefundsKeepSums, LedgerKeepsSums DEF AmountsInv
<1>2. AmountsInv => MoneyAddsUp
  BY LedgerAddsUp, CommittedIsEnough DEF AmountsInv, MoneyAddsUp
<1> QED BY <1>1, <1>2, MoneyStartsSound, MoneyKeepsLedgerInv, PTL DEF MoneySpec
=============================================================================
