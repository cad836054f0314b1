------------------------------ MODULE Refunds ------------------------------
(***************************************************************************)
(* Refunds of one captured payment (Payment): Order's request and the cap  *)
(* against the capture, the buyer's destination and its verification, the  *)
(* manual transfer an operator claims, makes outside the application and   *)
(* submits, the reviewer who confirms it, the one-step resolution through  *)
(* a maker-checker request, and the delivery of the outcome to Order.      *)
(*                                                                         *)
(* Every step on a refund runs under its row lock and a version check, so  *)
(* one transaction is one action.  Money itself moves at the bank: `sent`  *)
(* counts the transfers that really left, made only by an operator whose   *)
(* claim is live; reviewers fail an attempt only when the statement shows  *)
(* no transfer.                                                            *)
(***************************************************************************)
EXTENDS Approvals, Sequences, FiniteSetsExt, Naturals, FiniteSets

CONSTANTS Refunds,       \* Order's refund ids
          Capture,       \* the captured amount
          Manual,        \* bound: refunds whose buyer gives a destination
          MaxVersions,   \* bound: destination versions per refund
          MaxAttempts,   \* bound: transfer attempts per refund
          MaxRequested,  \* bound: refunds with a resolution request
          MaxDeliveries, \* maxRefundSyncAttempts
          RollBack       \* may the workflow flag be switched off again

ASSUME RefundsAssumption ==
  /\ IsFiniteSet(Refunds) /\ Manual \subseteq Refunds
  /\ Capture \in Nat \ {0} /\ MaxVersions \in Nat /\ MaxAttempts \in Nat
  /\ MaxDeliveries \in Nat \ {0} /\ MaxRequested \in Nat /\ RollBack \in BOOLEAN

VARIABLES
  workflowOn,  \* FEATURE_MANUAL_REFUND_WORKFLOW_ENABLED
  capturedIntent,      \* status of the captured intent
  refund,      \* refund[f]: status and amount
  dest,        \* dest[f]: status of each destination version
  attempt,     \* attempt[f]: the newest transfer attempt
  attempts,    \* attempts[f]: how many were prepared
  sync,        \* sync[f]: delivery of the outcome to Order
  told,        \* told[f]: the outcome Order was told
  sent         \* sent[f]: bank transfers that left

refundVars == <<workflowOn, capturedIntent, refund, dest, attempt, attempts, sync, told, sent>>
workflowVars == <<refundVars, approvalVars>>

\* RefundStatus.Open; nothing in the code sets the status "pending".
OpenRefund(f) == refund[f].status = "awaiting_provider_refund"

NoAttempt == [stage |-> "none", dest |-> 0, claimedBy |-> NoAdmin, submittedBy |-> NoAdmin,
              lease |-> FALSE, sent |-> FALSE]
Active(f) == attempt[f].stage \in {"ready", "executing", "submitted", "unknown"}

RefundsStart ==
  /\ workflowOn = TRUE
  /\ capturedIntent = "captured"
  /\ refund = [f \in Refunds |-> [status |-> "none", amount |-> 0]]
  /\ dest = [f \in Refunds |-> << >>]
  /\ attempt = [f \in Refunds |-> NoAttempt]
  /\ attempts = [f \in Refunds |-> 0]
  /\ sync = [f \in Refunds |-> [state |-> "none", tries |-> 0]]
  /\ told = [f \in Refunds |-> "none"]
  /\ sent = [f \in Refunds |-> 0]

RefundsInit == RefundsStart /\ ApprovalInit(Refunds)

-----------------------------------------------------------------------------
(* Order asks for a refund; the intent row is locked while the cap is judged. *)

Committed == MapThenSumSet(LAMBDA f : IF refund[f].status = "failed" THEN 0 ELSE refund[f].amount, Refunds)
Succeeded(r) == MapThenSumSet(LAMBDA f : IF r[f].status = "succeeded" THEN r[f].amount ELSE 0, Refunds)

\* Mutant: only paid refunds count against the capture.
CheckRefundablePaid(amount) ==
  /\ capturedIntent \in {"captured", "refunded"}
  /\ amount <= Capture - Succeeded(refund)

CheckRefundable(amount) ==
  /\ capturedIntent \in {"captured", "refunded"}
  /\ amount <= Capture - Committed

RequestRefund(f, amount) ==
  /\ refund[f].status = "none"
  /\ CheckRefundable(amount)
  /\ refund' = [refund EXCEPT ![f] = [status |-> "awaiting_provider_refund", amount |-> amount]]
  /\ UNCHANGED <<workflowOn, capturedIntent, dest, attempt, attempts, sync, told, sent, approvalVars>>

-----------------------------------------------------------------------------
(* Resolution: status, outcome queued for Order, intent refunded when all of *)
(* the capture is back.                                                    *)

Resolve(f, outcome) ==
  /\ refund' = [refund EXCEPT ![f].status = outcome]
  /\ sync' = [sync EXCEPT ![f] = [state |-> "queued", tries |-> 0]]
  /\ capturedIntent' = IF outcome = "succeeded" /\ capturedIntent = "captured" /\ Capture <= Succeeded(refund')
               THEN "refunded" ELSE capturedIntent

GuardLegacyResolution(f, outcome) ==
  /\ ~Active(f)
  /\ outcome = "succeeded" => ~workflowOn

snapshot(f) == refund[f].status

DraftResolution(f, maker, outcome) ==
  /\ OpenRefund(f)
  /\ GuardLegacyResolution(f, outcome)
  /\ Cardinality({g \in Refunds : request[g].status # "none"} \cup {f}) <= MaxRequested
  /\ Draft(f, maker, outcome, snapshot(f))
  /\ UNCHANGED refundVars

\* The provider's refund proves a success; the workflow never ran for it.
execute(f) ==
  /\ ApproveRequest(f)
  /\ request[f].snap = snapshot(f)
  /\ OpenRefund(f)
  /\ GuardLegacyResolution(f, request[f].outcome)
  /\ sent' = IF request[f].outcome = "succeeded" THEN [sent EXCEPT ![f] = @ + 1] ELSE sent
  /\ Resolve(f, request[f].outcome)
  /\ UNCHANGED <<workflowOn, dest, attempt, attempts, told>>

-----------------------------------------------------------------------------
(* Destination versions. *)

Current(f) == {v \in DOMAIN dest[f] : dest[f][v] \in {"pending_verification", "verified"}}

AddDestination(f) ==
  dest' = [dest EXCEPT ![f] = Append([v \in DOMAIN @ |-> IF v \in Current(f) THEN "superseded" ELSE @[v]],
                                     "pending_verification")]

\* Mutant: a claimed transfer is not looked at.
MayChangeDestinationAlways(f) == TRUE

MayChangeDestination(f) == Active(f) => attempt[f].stage = "ready"

\* A ready attempt on the old destination is voided.
SubmitDestination(f) ==
  /\ workflowOn /\ OpenRefund(f)
  /\ Len(dest[f]) < MaxVersions
  /\ MayChangeDestination(f)
  /\ attempt' = IF attempt[f].stage = "ready" THEN [attempt EXCEPT ![f].stage = "voided"] ELSE attempt
  /\ AddDestination(f)
  /\ UNCHANGED <<workflowOn, capturedIntent, refund, attempts, sync, told, sent, approvalVars>>

DecideDestination(f, v, verify) ==
  /\ v \in Current(f) /\ dest[f][v] = "pending_verification"
  /\ dest' = [dest EXCEPT ![f][v] = IF verify THEN "verified" ELSE "rejected"]
  /\ UNCHANGED <<workflowOn, capturedIntent, refund, attempt, attempts, sync, told, sent, approvalVars>>

-----------------------------------------------------------------------------
(* Transfer attempts. *)

PrepareAttempt(f) ==
  /\ workflowOn /\ OpenRefund(f)
  /\ attempts[f] < MaxAttempts
  /\ ~Active(f)                               \* manual_refund_attempts_active_idx
  /\ \E v \in Current(f) :
       /\ dest[f][v] = "verified"
       /\ attempt' = [attempt EXCEPT ![f] = [NoAttempt EXCEPT !.stage = "ready", !.dest = v]]
  /\ attempts' = [attempts EXCEPT ![f] = @ + 1]
  /\ UNCHANGED <<workflowOn, capturedIntent, refund, dest, sync, told, sent, approvalVars>>

SaveAttempt(f, a) ==
  /\ attempt' = [attempt EXCEPT ![f] = a]
  /\ UNCHANGED <<workflowOn, dest, attempts, told, sent>>

Claim(f, actor) ==
  /\ attempt[f].stage = "ready"
  /\ attempt[f].dest \in Current(f) /\ dest[f][attempt[f].dest] = "verified"
  /\ SaveAttempt(f, [attempt[f] EXCEPT !.stage = "executing", !.claimedBy = actor, !.lease = TRUE])
  /\ UNCHANGED <<capturedIntent, refund, sync, approvalVars>>

\* Cancel: the operator states that nothing was sent.
CancelAttempt(f, actor) ==
  /\ \/ attempt[f].stage = "ready"
     \/ /\ attempt[f].stage = "executing" /\ attempt[f].claimedBy = actor /\ attempt[f].lease
        /\ ~attempt[f].sent
  /\ SaveAttempt(f, [attempt[f] EXCEPT !.stage = "voided"])
  /\ UNCHANGED <<capturedIntent, refund, sync, approvalVars>>

\* At the bank: the claimer transfers to the destination revealed to them.
TransferMoney(f) ==
  /\ attempt[f].stage = "executing" /\ ~attempt[f].sent
  /\ sent' = [sent EXCEPT ![f] = @ + 1]
  /\ attempt' = [attempt EXCEPT ![f].sent = TRUE]
  /\ UNCHANGED <<workflowOn, capturedIntent, refund, dest, attempts, sync, told, approvalVars>>

LeaseRunsOut(f) ==
  /\ attempt[f].stage = "executing" /\ attempt[f].lease
  /\ SaveAttempt(f, [attempt[f] EXCEPT !.lease = FALSE])
  /\ UNCHANGED <<capturedIntent, refund, sync, approvalVars>>

\* Mutant: an expired claim is opened for another operator.
ExpireClaimsReopens(f) ==
  /\ attempt[f].stage = "executing" /\ ~attempt[f].lease
  /\ SaveAttempt(f, [attempt[f] EXCEPT !.stage = "ready", !.claimedBy = NoAdmin, !.sent = FALSE])
  /\ UNCHANGED <<capturedIntent, refund, sync, approvalVars>>

ExpireClaims(f) ==
  /\ attempt[f].stage = "executing" /\ ~attempt[f].lease
  /\ SaveAttempt(f, [attempt[f] EXCEPT !.stage = "unknown"])
  /\ UNCHANGED <<capturedIntent, refund, sync, approvalVars>>

\* The transfer is recorded by its claimer, or, once the claim ran out, by
\* whoever found it on the statement.
SubmitAttempt(f, actor) ==
  /\ \/ attempt[f].stage = "executing" /\ attempt[f].claimedBy = actor
     \/ attempt[f].stage = "unknown"
  /\ attempt[f].sent
  /\ SaveAttempt(f, [attempt[f] EXCEPT !.stage = "submitted", !.submittedBy = actor])
  /\ UNCHANGED <<capturedIntent, refund, sync, approvalVars>>

\* Decide, with the two-person rule of AF-19 on.
MayDecide(f, actor) == actor \notin {attempt[f].claimedBy, attempt[f].submittedBy}

ConfirmAttempt(f, actor) ==
  /\ attempt[f].stage = "submitted" /\ MayDecide(f, actor)
  /\ OpenRefund(f)
  /\ Resolve(f, "succeeded")
  /\ SaveAttempt(f, [attempt[f] EXCEPT !.stage = "confirmed"])
  /\ UNCHANGED <<approvalVars>>

\* The statement shows no transfer: the refund stays open for another attempt.
FailAttempt(f, actor) ==
  /\ attempt[f].stage \in {"submitted", "unknown"} /\ MayDecide(f, actor)
  /\ ~attempt[f].sent
  /\ SaveAttempt(f, [attempt[f] EXCEPT !.stage = "failed"])
  /\ UNCHANGED <<capturedIntent, refund, sync, approvalVars>>

-----------------------------------------------------------------------------
(* The outcome is delivered to Order until Order takes it or refuses it. *)

syncOnly == <<workflowOn, capturedIntent, refund, dest, attempt, attempts, sent, approvalVars>>

\* deliver answers: taken; refused; lost before or after Order took it.
Dispatch(f) ==
  /\ sync[f].state = "queued"
  /\ \/ /\ told' = [told EXCEPT ![f] = refund[f].status]
        /\ sync' = [sync EXCEPT ![f].state = "delivered"]
     \/ /\ told' = told
        /\ sync' = [sync EXCEPT ![f].state = "review"]
     \/ /\ told' \in {told, [told EXCEPT ![f] = refund[f].status]}
        /\ sync' = [sync EXCEPT ![f] =
             [state |-> IF @.tries + 1 >= MaxDeliveries THEN "review" ELSE "queued", tries |-> @.tries + 1]]
  /\ UNCHANGED syncOnly

Requeue(f) ==
  /\ sync[f].state = "review"
  /\ sync' = [sync EXCEPT ![f] = [state |-> "queued", tries |-> 0]]
  /\ UNCHANGED <<syncOnly, told>>

\* Over the bus Order's refusal comes back after the delivery.
MarkRejected(f) ==
  /\ sync[f].state = "delivered"
  /\ sync' = [sync EXCEPT ![f].state = "review"]
  /\ told' = [told EXCEPT ![f] = "none"]
  /\ UNCHANGED syncOnly

\* The flag is rolled back or on again at a restart.
SwitchWorkflow ==
  /\ RollBack
  /\ workflowOn' = ~workflowOn
  /\ UNCHANGED <<capturedIntent, refund, dest, attempt, attempts, sync, told, sent, approvalVars>>

-----------------------------------------------------------------------------
Requests ==
  \E f \in Refunds :
    \/ \E amount \in 1..Capture : RequestRefund(f, amount)
    \/ \E a \in Admins, outcome \in {"succeeded", "failed"} : DraftResolution(f, a, outcome)
    \/ execute(f)
    \/ ApprovalStep(f) /\ UNCHANGED refundVars

Workflow ==
  \E f \in Manual :
    \/ SubmitDestination(f)
    \/ \E v \in 1..MaxVersions, verify \in BOOLEAN : DecideDestination(f, v, verify)
    \/ PrepareAttempt(f)
    \/ \E a \in Admins : Claim(f, a) \/ CancelAttempt(f, a) \/ SubmitAttempt(f, a)
    \/ \E a \in Admins : ConfirmAttempt(f, a) \/ FailAttempt(f, a)
    \/ TransferMoney(f) \/ LeaseRunsOut(f) \/ ExpireClaims(f)

Delivery == \E f \in Refunds : Dispatch(f) \/ Requeue(f) \/ MarkRejected(f)

RefundsNext ==
  \/ Requests
  \/ Workflow
  \/ Delivery
  \/ SwitchWorkflow
  \/ (\E a \in Admins : RevokePrepare(a)) /\ UNCHANGED refundVars

RefundsSpec == RefundsInit /\ [][RefundsNext]_workflowVars

-----------------------------------------------------------------------------
(* Properties. *)

\* However requests, failed attempts, expired claims and the one-step
\* resolution interleave, the money sent back never exceeds the capture
\* (CheckRefundable, manual_refund_attempts_active_idx).
WithinCapture ==
  MapThenSumSet(LAMBDA f : sent[f] * refund[f].amount, Refunds) <= Capture

\* A refund recorded as succeeded was paid exactly once, one recorded as
\* failed never, an open one at most once, and Order was told nothing else
\* (ManualRefundUseCase.Decide, GuardLegacyResolution, RefundSync.Dispatch).
OutcomeMatchesMoney ==
  \A f \in Refunds :
    /\ told[f] \in {"none", refund[f].status}
    /\ refund[f].status = "succeeded" => sent[f] = 1
    /\ refund[f].status = "failed" => sent[f] = 0
    /\ sent[f] <= 1

\* From the claim on, the attempt's destination stays the buyer's newest one
\* and verified (SubmitDestination: "while money may be moving the destination
\* cannot change").
DestinationFrozen ==
  \A f \in Refunds :
    attempt[f].stage \in {"executing", "submitted", "unknown"} =>
      /\ attempt[f].dest = Len(dest[f])
      /\ dest[f][attempt[f].dest] = "verified"

----------------------------------------------------------------------------
(***************************************************************************)
(* Transfer receipts of manual refunds (Payment): the row is written before *)
(* the object, a submission attaches uploaded rows, and the cleanup worker *)
(* lists old unattached rows, deletes their objects and then marks them.   *)
(***************************************************************************)
CONSTANTS Files        \* receipts uploaded for one transfer attempt

VARIABLES stage,       \* stage of the attempt
          row,         \* row[e]: state of the evidence row
          object,      \* objects in the private bucket
          old,         \* rows older than the day of grace
          sweep        \* sweep[e]: the state the cleanup listed, or "idle"

evidenceVars == <<stage, row, object, old, sweep>>

EvidenceInit ==
  /\ stage = "executing"
  /\ row = [e \in Files |-> "none"]
  /\ object = {} /\ old = {}
  /\ sweep = [e \in Files |-> "idle"]

UploadStarts(e) ==
  /\ stage \in {"executing", "unknown"} /\ row[e] = "none"
  /\ row' = [row EXCEPT ![e] = "uploading"]
  /\ UNCHANGED <<stage, object, old, sweep>>

\* Put: within the request, so before the day of grace is over.
UploadPut(e) ==
  /\ row[e] = "uploading" /\ e \notin object \cup old
  /\ object' = object \cup {e}
  /\ UNCHANGED <<stage, row, old, sweep>>

UploadRecorded(e) ==
  /\ row[e] = "uploading" /\ e \in object \ old
  /\ row' = [row EXCEPT ![e] = "uploaded"]
  /\ UNCHANGED <<stage, object, old, sweep>>

\* Submit attaches the named files, all of them uploaded.
AttachEvidence(named) ==
  /\ stage \in {"executing", "unknown"}
  /\ \A e \in named : row[e] = "uploaded"
  /\ row' = [e \in Files |-> IF e \in named THEN "attached" ELSE row[e]]
  /\ stage' = "submitted"
  /\ UNCHANGED <<object, old, sweep>>

\* The attempt is cancelled, or its claim runs out.
AttemptMoves ==
  /\ stage' \in CASE stage = "executing" -> {"unknown", "closed"}
                  [] stage = "unknown" -> {"closed"}
                  [] OTHER -> {}
  /\ UNCHANGED <<row, object, old, sweep>>

DayPasses(e) ==
  /\ row[e] # "none" /\ e \notin old
  /\ old' = old \cup {e}
  /\ UNCHANGED <<stage, row, object, sweep>>

\* Mutant: uploads are listed without their age.
OrphanEvidenceFresh(e) ==
  /\ sweep[e] = "idle" /\ row[e] \in {"uploading", "uploaded"}
  /\ sweep' = [sweep EXCEPT ![e] = row[e]]
  /\ UNCHANGED <<stage, row, object, old>>

OrphanEvidence(e) ==
  /\ sweep[e] = "idle" /\ e \in old /\ row[e] \in {"uploading", "uploaded"}
  /\ sweep' = [sweep EXCEPT ![e] = row[e]]
  /\ UNCHANGED <<stage, row, object, old>>

CleanupDeletes(e) ==
  /\ sweep[e] # "idle" /\ e \in object
  /\ object' = object \ {e}
  /\ UNCHANGED <<stage, row, old, sweep>>

\* The row is marked if it still has the listed state; a stale one stays.
SetEvidenceState(e) ==
  /\ sweep[e] # "idle" /\ e \notin object
  /\ row' = IF row[e] = sweep[e] THEN [row EXCEPT ![e] = "deleted"] ELSE row
  /\ sweep' = [sweep EXCEPT ![e] = "idle"]
  /\ UNCHANGED <<stage, object, old>>

Cleanup(e) == OrphanEvidence(e) \/ CleanupDeletes(e) \/ SetEvidenceState(e)

EvidenceNext ==
  \/ \E e \in Files : UploadStarts(e) \/ UploadPut(e) \/ UploadRecorded(e) \/ DayPasses(e) \/ Cleanup(e)
  \/ \E named \in SUBSET Files : AttachEvidence(named)
  \/ AttemptMoves

EvidenceSpec == EvidenceInit /\ [][EvidenceNext]_evidenceVars

\* A receipt attached within the grace period of its upload stays: the
\* cleanup never removes the object of a fresh one, whatever it listed before
\* (CleanupEvidence, EvidenceOrphanGrace).
FreshEvidenceIsKept == \A e \in Files : row[e] = "attached" /\ e \notin object => e \in old
=============================================================================
