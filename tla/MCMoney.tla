------------------------------- MODULE MCMoney -------------------------------
(***************************************************************************)
(* Payment's money components for TLC: the provider's links and receipts,  *)
(* refunds and their transfer receipts, the vendor ledger with its         *)
(* payouts, and reimbursements.  They meet only through tables that each   *)
(* module abstracts, so one behaviour moves one component: focus names it  *)
(* and the others rest in an initial state.                                *)
(***************************************************************************)
EXTENDS Refunds, Settlement, PaymentIntents

CONSTANTS Components,   \* the components this run moves
          RefundBound,  \* bound: destination versions and transfer attempts of one refund together
          LedgerBound,  \* bound: adjustments and holds of one ledger together
          IntentBound   \* bound: intents and mishaps of one order together

VARIABLE focus         \* the component that moves

moneyVars == <<focus, refundVars, evidenceVars, ledgerVars, approvalVars,
               reimbursementVars, intentsVars, receiptsVars>>

MCRefundOrder == [r \in RefundIds |-> CHOOSE v \in VendorOrders : TRUE]
MCRefundAmount == [r \in RefundIds |-> 6]
MCHoldOrder == [h \in HoldIds |-> CHOOSE v \in VendorOrders : TRUE]

Only(component) ==
  /\ focus = component /\ UNCHANGED focus
  /\ IF component = "refunds" THEN TRUE ELSE UNCHANGED refundVars
  /\ IF component = "evidence" THEN TRUE ELSE UNCHANGED evidenceVars
  /\ IF component = "settlement" THEN TRUE ELSE UNCHANGED ledgerVars
  /\ IF component \in {"refunds", "settlement"} THEN TRUE ELSE UNCHANGED approvalVars
  /\ IF component = "reimbursements" THEN TRUE ELSE UNCHANGED reimbursementVars
  /\ IF component = "intents" THEN TRUE ELSE UNCHANGED intentsVars
  /\ IF component = "receipts" THEN TRUE ELSE UNCHANGED receiptsVars

MoneyInit ==
  /\ focus \in Components
  /\ RefundsStart /\ EvidenceInit /\ LedgerInit /\ ReimbursementsInit
  /\ ApprovalInit(IF focus = "refunds" THEN Refunds ELSE Items)
  /\ IntentsInit /\ (focus # "intents" => legacy = {})
  /\ ReceiptsInit
  /\ focus # "receipts" => /\ \A r \in Receipts : event[r] = "succeeded"
                           /\ known = {} /\ linkStatus = "pending"

MoneyNext ==
  \/ Only("refunds") /\ RefundsNext
     /\ \A f \in Refunds : Len(dest'[f]) + attempts'[f] <= RefundBound
  \/ Only("evidence") /\ EvidenceNext
  \/ Only("settlement") /\ SettlementNext
     /\ Cardinality({e \in entries' : e.type = "adjustment"}) + Cardinality({h \in HoldIds : holds'[h].status # "none"})
          <= LedgerBound
  \/ Only("reimbursements") /\ ReimbursementsNext
  \/ Only("intents") /\ IntentsNext
     /\ Cardinality({i \in Intents : intent'[i] # "none"}) + Cardinality(Mishaps') <= IntentBound
  \/ Only("receipts") /\ ReceiptsNext

MoneySpec == MoneyInit /\ [][MoneyNext]_moneyVars

-----------------------------------------------------------------------------
(* Properties of several components.                                       *)

\* The amounts agree: refunds stay within the capture, the ledger's balance
\* is what is still owed, held credits stay, refunds are charged, and the
\* vendor's statement adds up to the balance (Refunds, Settlement).
MoneyAddsUp ==
  /\ WithinCapture
  /\ BalanceIsOwed /\ HeldMoneyStays /\ RefundsCharged /\ StatementAddsUp

\* Nothing is paid, captured or applied on one word: a reimbursement and a
\* payout have two admins, a captured intent has a paid link, a receipt's
\* decision is committed once, and the receipt a transfer needs is not
\* cleaned away (Settlement, PaymentIntents, Refunds).
PaymentsAreProven ==
  /\ PaidByTwoAdmins /\ PayoutsAreApproved
  /\ CaptureIsReal /\ ReceiptAppliedOnce /\ FreshEvidenceIsKept
=============================================================================
