----------------------------- MODULE Settlement -----------------------------
(***************************************************************************)
(* The settlement ledger of one vendor (Payment): vendor orders ingested   *)
(* from Order, refunds charged back, manual adjustments, settlement holds, *)
(* payout batches with their approvals, and the transfers recorded through *)
(* maker-checker requests.                                                 *)
(*                                                                         *)
(* The ledger is append only.  Batches and holds of a vendor are serialised *)
(* by the vendor's lock, so each of them is one action.  The transaction   *)
(* that ingests a vendor order and those that resolve its refunds share no *)
(* lock, and PostgreSQL runs them READ COMMITTED: each reads in one action *)
(* and commits in another, and sees nothing of those still open.  With one *)
(* vendor a batch has one item; the module writes item for both.           *)
(***************************************************************************)
EXTENDS Approvals, Integers, Sequences, FiniteSetsExt, FiniteSets

CONSTANTS VendorOrders,
          Subtotal, Shipping, CommissionBps,  \* of every vendor order
          RefundIds, RefundOrder, RefundAmount,
          HoldIds, HoldOrder,     \* settlement holds and the order each is on
          Adjustments,            \* amounts of manual adjustments
          Creators,               \* admins who create batches and requests
          Approvers,              \* admins who approve batches
          ItemLimit,              \* above it a batch needs two approvals
          MaxItems                \* bound: payout batches

Commission == (Subtotal * CommissionBps) \div 10000

ASSUME SettlementAssumption ==
  /\ Subtotal \in Nat /\ Shipping \in Nat /\ CommissionBps \in 0..10000
  /\ RefundOrder \in [RefundIds -> VendorOrders] /\ RefundAmount \in [RefundIds -> Nat \ {0}]
  /\ HoldOrder \in [HoldIds -> VendorOrders] /\ Adjustments \subseteq Int
  /\ Creators \subseteq Admins /\ NoAdmin \notin Approvers /\ MaxItems \in Nat
  /\ "none" \notin VendorOrders /\ IsFiniteSet(RefundIds)

VARIABLES settled,    \* vendor orders ingested
          eligible,   \* vendor orders past their return window
          entries,    \* the ledger
          refunds,    \* refunds[r]: "none", "open", "succeeded" or "failed"
          holds,      \* holds[h]: status and whether a payout had claimed
          orderHolds, \* vendor orders Order reports as held
          ingesting,  \* vendor orders whose ingest is open -> the refunds it saw succeeded
          posting,    \* refunds whose resolution is open -> the rows it will write
          crowded,    \* history: vendor orders of which two of these were open at once
          account,    \* the vendor's payout account: "none", "new" or "paid_before"
          items       \* payout items, in order of creation

openTx == <<ingesting, posting, crowded>>
ledgerVars == <<settled, eligible, entries, refunds, holds, orderHolds, openTx, account, items>>
settlementVars == <<ledgerVars, approvalVars>>

Items == 1..MaxItems

LedgerInit ==
  /\ settled = {} /\ eligible = {} /\ entries = {}
  /\ refunds = [r \in RefundIds |-> "none"]
  /\ holds = [h \in HoldIds |-> [status |-> "none", claimed |-> FALSE]]
  /\ orderHolds = {}
  /\ ingesting = << >> /\ posting = << >> /\ crowded = {}
  /\ account = "new"
  /\ items = << >>

SettlementInit == LedgerInit /\ ApprovalInit(Items)

-----------------------------------------------------------------------------
(* The ledger. *)

Entry(type, vo, ref, amount, base) ==
  [type |-> type, vo |-> vo, ref |-> ref, amount |-> amount, base |-> base]

SumAmounts(E) == MapThenSumSet(LAMBDA e : e.amount, E)

\* settlement_entries is unique by (entry_type, source_ref).
AppendEntries(E, new) == E \cup {n \in new : ~\E e \in E : e.type = n.type /\ e.ref = n.ref}

SaleEntries(vo) ==
  {n \in {Entry("sale", vo, vo, Subtotal, 0), Entry("shipping", vo, vo, Shipping, 0),
          Entry("commission", vo, vo, -Commission, 0)} : n.amount # 0}

\* What earlier refunds of the vendor order took of its items and reversed.
RefundAttribution(E, vo) ==
  [items |-> MapThenSumSet(LAMBDA e : e.base, {e \in E : e.type = "refund" /\ e.vo = vo}),
   reversed |-> SumAmounts({e \in E : e.type = "commission_reversal" /\ e.vo = vo})]

RefundEntries(E, r) ==
  LET vo == RefundOrder[r]
      done == RefundAttribution(E, vo)
      part == Min({RefundAmount[r], Max({0, Subtotal - done.items})})
      give == Min({(part * CommissionBps) \div 10000, Max({0, Commission - done.reversed})})
  IN {Entry("refund", vo, r, -RefundAmount[r], part)}
     \cup IF give > 0 THEN {Entry("commission_reversal", vo, r, give, 0)} ELSE {}

\* postRefund: once per refund.
postRefund(E, r) ==
  IF \E e \in E : e.type = "refund" /\ e.ref = r THEN E ELSE AppendEntries(E, RefundEntries(E, r))

\* A transaction begins to work on x with what it read, and ends.
Begun(open, x, read) == [y \in DOMAIN open \cup {x} |-> IF y = x THEN read ELSE open[y]]
Ended(open, x) == [y \in DOMAIN open \ {x} |-> open[y]]

Postings(vo) == {r \in DOMAIN posting : RefundOrder[r] = vo}

\* The refunds an ingest saw, posted in id order.
PostEarlier(E, seen) == FoldSet(LAMBDA r, acc : postRefund(acc, r), E, seen)

\* IngestVendorOrder: the refunds that succeeded so far, and the commit.  Order
\* reports a vendor order again when the answer was lost: its sale is not
\* entered again, refunds that are not charged yet are.
SucceededRefunds(vo) ==
  /\ vo \notin DOMAIN ingesting
  /\ ingesting' = Begun(ingesting, vo, {r \in RefundIds : refunds[r] = "succeeded" /\ RefundOrder[r] = vo})
  /\ crowded' = IF Postings(vo) = {} THEN crowded ELSE crowded \cup {vo}
  /\ UNCHANGED <<settled, eligible, entries, refunds, holds, orderHolds, posting, account, items, approvalVars>>

\* Mutant: refunds that came before the vendor order are forgotten.
IngestForgets(vo) ==
  /\ vo \in DOMAIN ingesting
  /\ settled' = settled \cup {vo}
  /\ entries' = AppendEntries(entries, SaleEntries(vo))
  /\ ingesting' = Ended(ingesting, vo)
  /\ UNCHANGED <<eligible, refunds, holds, orderHolds, posting, crowded, account, items, approvalVars>>

IngestVendorOrder(vo) ==
  /\ vo \in DOMAIN ingesting
  /\ settled' = settled \cup {vo}
  /\ entries' = PostEarlier(AppendEntries(entries, SaleEntries(vo)), ingesting[vo])
  /\ ingesting' = Ended(ingesting, vo)
  /\ UNCHANGED <<eligible, refunds, holds, orderHolds, posting, crowded, account, items, approvalVars>>

IngestRollsBack(vo) ==
  /\ vo \in DOMAIN ingesting
  /\ ingesting' = Ended(ingesting, vo)
  /\ UNCHANGED <<settled, eligible, entries, refunds, holds, orderHolds, posting, crowded, account, items, approvalVars>>

ReturnWindowEnds(vo) ==
  /\ vo \notin eligible
  /\ eligible' = eligible \cup {vo}
  /\ UNCHANGED <<settled, entries, refunds, holds, orderHolds, openTx, account, items, approvalVars>>

\* Refunds of vendor orders are requested and resolved in module Refunds.
RefundOpens(r) ==
  /\ refunds[r] = "none"
  /\ refunds' = [refunds EXCEPT ![r] = "open"]
  /\ UNCHANGED <<settled, eligible, entries, holds, orderHolds, openTx, account, items, approvalVars>>

RefundFails(r) ==
  /\ refunds[r] = "open" /\ r \notin DOMAIN posting
  /\ refunds' = [refunds EXCEPT ![r] = "failed"]
  /\ UNCHANGED <<settled, eligible, entries, holds, orderHolds, openTx, account, items, approvalVars>>

\* A success is posted in the transaction that resolves the refund, which
\* holds the refund's row only: whether the vendor order is settled and what
\* its other refunds took is read, and committed later.
FindOrder(r) ==
  LET vo == RefundOrder[r]
  IN /\ refunds[r] = "open" /\ r \notin DOMAIN posting
     /\ posting' = Begun(posting, r, IF vo \in settled THEN postRefund(entries, r) \ entries ELSE {})
     /\ crowded' = IF Postings(vo) = {} /\ vo \notin DOMAIN ingesting THEN crowded ELSE crowded \cup {vo}
     /\ UNCHANGED <<settled, eligible, entries, refunds, holds, orderHolds, ingesting, account, items, approvalVars>>

PostRefund(r) ==
  /\ r \in DOMAIN posting
  /\ refunds' = [refunds EXCEPT ![r] = "succeeded"]
  /\ entries' = AppendEntries(entries, posting[r])
  /\ posting' = Ended(posting, r)
  /\ UNCHANGED <<settled, eligible, holds, orderHolds, ingesting, crowded, account, items, approvalVars>>

PostRollsBack(r) ==
  /\ r \in DOMAIN posting
  /\ posting' = Ended(posting, r)
  /\ UNCHANGED <<settled, eligible, entries, refunds, holds, orderHolds, ingesting, crowded, account, items, approvalVars>>

-----------------------------------------------------------------------------
(* Settlement holds (Order, Shipment and Review ask for them). *)

Paying == {"pending", "succeeded"}
Claimed(e) == \E i \in DOMAIN items : items[i].status \in Paying /\ e \in items[i].entries
PayoutClaimed(vo) == \E e \in entries : e.vo = vo /\ e.amount > 0 /\ Claimed(e)

Acquire(h) ==
  /\ holds[h].status = "none"
  /\ holds' = [holds EXCEPT ![h] = [status |-> "active", claimed |-> PayoutClaimed(HoldOrder[h])]]
  /\ UNCHANGED <<settled, eligible, entries, refunds, orderHolds, openTx, account, items, approvalVars>>

\* A release that overtakes its acquire leaves a released tombstone.
Release(h) ==
  /\ holds[h].status # "released"
  /\ holds' = [holds EXCEPT ![h].status = "released"]
  /\ UNCHANGED <<settled, eligible, entries, refunds, orderHolds, openTx, account, items, approvalVars>>

ActiveHolds == {HoldOrder[h] : h \in {g \in HoldIds : holds[g].status = "active"}}

OrderHolds(vo) ==
  /\ orderHolds' \in {orderHolds \cup {vo}, orderHolds \ {vo}} /\ orderHolds' # orderHolds
  /\ UNCHANGED <<settled, eligible, entries, refunds, holds, openTx, account, items, approvalVars>>

-----------------------------------------------------------------------------
(* Payout batches. *)

Unpaid == {e \in entries : e.type # "payout" /\ ~Claimed(e)}
OpenRefundVendorOrders == {RefundOrder[r] : r \in {q \in RefundIds : refunds[q] = "open"}}

\* Only vendor orders with an unpaid credit are asked about.
Asked == {e.vo : e \in {u \in Unpaid : u.amount > 0}}
\* Mutant: the hold ledger is not read.
HeldOrdersNoLedger == Asked \cap (orderHolds \cup OpenRefundVendorOrders)

HeldOrders == Asked \cap (orderHolds \cup OpenRefundVendorOrders \cup ActiveHolds)

Immediate(e) == e.type = "refund" \/ (e.type = "adjustment" /\ e.amount < 0)
Payable(e) ==
  \/ Immediate(e)
  \/ e.vo \notin HeldOrders /\ (e.vo \in eligible \/ e.type = "adjustment")

PayableEntries == {e \in Unpaid : Payable(e)}

\* Mutant: the statement treats refunds of held orders as held.
StatementImmediateNone(e) == FALSE

\* The classification of the statement's SQL, which repeats the rules of the
\* payout above over all entries of the vendor.
StatementImmediate(e) == e.type = "refund" \/ (e.type = "adjustment" /\ e.amount < 0)
StatementHeld(e) == e.vo \in ActiveHolds \cup OpenRefundVendorOrders \cup (orderHolds \cap {u.vo : u \in Unpaid})
StatementPending == {e \in entries : \E i \in DOMAIN items : items[i].status = "pending" /\ e \in items[i].entries}

\* StatementRepository.Read: the balances it prints.
Statement ==
  LET waiting == {e \in Unpaid : ~StatementImmediate(e)}
      free == {e \in waiting : ~StatementHeld(e)}
      due == {e \in free : e.vo \in eligible \/ e.type = "adjustment"}
  IN [closing |-> SumAmounts(entries), pending |-> SumAmounts(StatementPending),
      held |-> SumAmounts(waiting \ free), notEligible |-> SumAmounts(free \ due),
      payable |-> SumAmounts(due \cup (Unpaid \ waiting))]

\* Assess: two approvals above the limit or for a new destination.
Required(amount) == IF amount > ItemLimit \/ account = "new" THEN 2 ELSE 1

\* CreatePayoutBatch with addVendorItem and requireBatchApproval.
CreatePayoutBatch(admin) ==
  /\ Len(items) < MaxItems
  /\ SumAmounts(PayableEntries) > 0
  /\ account # "none"
  /\ items' = Append(items, [status |-> "pending", amount |-> SumAmounts(PayableEntries), entries |-> PayableEntries,
                             createdBy |-> admin, state |-> "awaiting_approval",
                             required |-> Required(SumAmounts(PayableEntries)),
                             first |-> NoAdmin, second |-> NoAdmin])
  /\ UNCHANGED <<settled, eligible, entries, refunds, holds, orderHolds, openTx, account, approvalVars>>

OpenApproval(i) == items[i].state \in {"awaiting_approval", "awaiting_second_approval"}
AllowsTransfers(i) == items[i].state = "approved"

SaveApproval(i, item) ==
  /\ items' = [items EXCEPT ![i] = item]
  /\ UNCHANGED <<settled, eligible, entries, refunds, holds, orderHolds, openTx, account, approvalVars>>

ApprovePayoutBatch(i, actor) ==
  /\ i \in DOMAIN items /\ OpenApproval(i)
  /\ actor \notin {items[i].createdBy, items[i].first}
  /\ SaveApproval(i,
       IF items[i].state = "awaiting_second_approval" THEN [items[i] EXCEPT !.second = actor, !.state = "approved"]
       ELSE [items[i] EXCEPT !.first = actor,
               !.state = IF items[i].required >= 2 THEN "awaiting_second_approval" ELSE "approved"])

\* An item that ended without a transfer: nothing reads more of it.
EndedItem(i, status) ==
  [items[i] EXCEPT !.status = status, !.state = "ended", !.amount = 0, !.entries = {}, !.first = NoAdmin, !.second = NoAdmin]

\* Withdrawn by its creator or rejected by another; the pending item is cancelled.
ClosePayoutBatch(i) ==
  /\ i \in DOMAIN items /\ OpenApproval(i)
  /\ SaveApproval(i, EndedItem(i, "cancelled"))

CancelPayoutItem(i) ==
  /\ i \in DOMAIN items /\ items[i].status = "pending"
  /\ SaveApproval(i, EndedItem(i, "cancelled"))

\* domain.ResolvePayoutItem on the locked item of an approved batch.
ResolvablePayoutItem(i) == AllowsTransfers(i) /\ items[i].status = "pending"

NoOpenRequest == \A t \in Items : ~OpenRequest(t)    \* bound: one request at a time

DraftTransfer(i, maker, outcome) ==
  /\ NoOpenRequest
  /\ i \in DOMAIN items /\ ResolvablePayoutItem(i)
  /\ Draft(i, maker, outcome, "pending")
  /\ UNCHANGED ledgerVars

\* A succeeded transfer posts the payout; a failed one frees its entries.
resolvePayoutItem(i) ==
  /\ i \in DOMAIN items /\ ResolvablePayoutItem(i)
  /\ ApproveRequest(i)
  /\ items' = [items EXCEPT ![i] = IF request[i].outcome = "failed" THEN EndedItem(i, "failed")
                                   ELSE [@ EXCEPT !.status = "succeeded"]]
  /\ entries' = IF request[i].outcome = "succeeded"
                THEN AppendEntries(entries, {Entry("payout", "none", i, -items[i].amount, 0)}) ELSE entries
  /\ account' = IF request[i].outcome = "succeeded" THEN "paid_before" ELSE account
  /\ UNCHANGED <<settled, eligible, refunds, holds, orderHolds, openTx>>

\* Every adjustment is an entry of its own (bound: one of each amount).  With
\* RequireApprovals it runs in the decision of a request like a transfer's;
\* here only its effect.
adjust(amount) ==
  /\ ~\E e \in entries : e.type = "adjustment" /\ e.ref = amount
  /\ entries' = AppendEntries(entries, {Entry("adjustment", "none", amount, amount, 0)})
  /\ UNCHANGED <<settled, eligible, refunds, holds, orderHolds, openTx, account, items, approvalVars>>

\* Vendor: the payout account is closed or replaced by a verified new one.
AccountChanges ==
  /\ account' \in {"none", "new"} \ {account}
  /\ UNCHANGED <<settled, eligible, entries, refunds, holds, orderHolds, openTx, items, approvalVars>>

IngestStep(vo) == SucceededRefunds(vo) \/ IngestVendorOrder(vo) \/ IngestRollsBack(vo)
PostStep(r) == FindOrder(r) \/ PostRefund(r) \/ PostRollsBack(r)

SettlementNext ==
  \/ \E vo \in VendorOrders : IngestStep(vo) \/ ReturnWindowEnds(vo) \/ OrderHolds(vo)
  \/ \E r \in RefundIds : RefundOpens(r) \/ RefundFails(r) \/ PostStep(r)
  \/ \E h \in HoldIds : Acquire(h) \/ Release(h)
  \/ \E a \in Creators : CreatePayoutBatch(a)
  \/ \E i \in Items :
       \/ \E a \in Approvers : ApprovePayoutBatch(i, a)
       \/ ClosePayoutBatch(i) \/ CancelPayoutItem(i)
       \/ \E a \in Creators, outcome \in {"succeeded", "failed"} : DraftTransfer(i, a, outcome)
       \/ resolvePayoutItem(i)
  \/ \E amount \in Adjustments : adjust(amount)
  \/ \E t \in Items : ApprovalStep(t) /\ UNCHANGED ledgerVars
  \/ AccountChanges

SettlementSpec == SettlementInit /\ [][SettlementNext]_settlementVars

-----------------------------------------------------------------------------
(* Properties. *)

\* The ledger's balance is exactly what is still owed: entries not yet part of
\* a succeeded payout.  No entry is paid twice or lost, whatever fails, is
\* cancelled or is closed in between (Unpaid, AddItem, resolvePayoutItem).
BalanceIsOwed ==
  LET paid == UNION {items[i].entries : i \in {j \in DOMAIN items : items[j].status = "succeeded"}}
  IN /\ SumAmounts(entries) = SumAmounts({e \in entries : e.type # "payout"} \ paid)
     /\ \A i, j \in DOMAIN items :
          i # j /\ items[i].status \in Paying /\ items[j].status \in Paying =>
            items[i].entries \cap items[j].entries = {}

\* While a hold is active that was not answered payout_already_claimed, no
\* payout claims a credit of its vendor order (SettlementHoldUseCase.Acquire).
HeldMoneyStays ==
  \A h \in HoldIds : holds[h].status = "active" /\ ~holds[h].claimed => ~PayoutClaimed(HoldOrder[h])

ChargedTo(vo) == {e.ref : e \in {x \in entries : x.type = "refund" /\ x.vo = vo}}
SucceededOf(vo) == {r \in RefundIds : RefundOrder[r] = vo /\ refunds[r] = "succeeded"}

\* Only succeeded refunds are charged to a settled vendor order.  As long as no
\* two of its transactions were open at once it is all of them, whichever came
\* first, and no more commission is given back than was taken
\* (IngestVendorOrder, PostRefund, RefundEntries).
RefundsCharged ==
  \A vo \in settled :
    /\ ChargedTo(vo) \subseteq SucceededOf(vo)
    /\ vo \notin crowded =>
         /\ ChargedTo(vo) = SucceededOf(vo)
         /\ RefundAttribution(entries, vo).reversed <= Commission

\* "A refund on a vendor order not settled yet is posted when Order reports the
\* order", and one on a settled order by PostRefund (settlement_usecase.go).  The
\* code breaks it when the two are open at once: neither sees the other.
SettledRefundsCharged == \A vo \in settled : SucceededOf(vo) \subseteq ChargedTo(vo)

\* Money leaves only with the approvals the batch needs, each by a person who
\* did not create it, and a transfer result recorded by two people
\* (ApprovePayoutBatch, ApprovalUseCase.Decide).
PayoutsAreApproved ==
  \A i \in DOMAIN items :
    items[i].status = "succeeded" =>
      /\ Cardinality({items[i].first, items[i].second} \ {NoAdmin, items[i].createdBy}) >= items[i].required
      /\ request[i].status = "approved" => request[i].maker # request[i].checker

\* The statement a vendor reads adds up to the ledger's balance, and what it
\* calls payable is what CreatePayoutBatch would pay now: two implementations
\* of one rule, in SQL (StatementRepository.Read) and in Go (Entry.Payable).
StatementAddsUp ==
  /\ Statement.closing = Statement.held + Statement.notEligible + Statement.payable + Statement.pending
  /\ Statement.payable = SumAmounts(PayableEntries)

-----------------------------------------------------------------------------
(***************************************************************************)
(* What the marketplace pays buyers outside a capture (Payment             *)
(* reimbursement_usecase.go): one admin prepares it, another who confirmed *)
(* the password for that version approves it, and the transfer to the      *)
(* buyer's verified account is recorded under its bank reference, next to  *)
(* the transfers of manual refunds (module Refunds).                       *)
(*                                                                         *)
(* One order with one buyer; amounts and reasons are left out.             *)
(***************************************************************************)
CONSTANTS
  Operators, Keys,        \* Idempotency-Keys of the requests
  References,          \* bank references, normalised
  StepUp,              \* whether a decision needs a password proof
  MaxReimbursements, MaxTransfers, MaxProofs   \* bounds of the model

VARIABLES
  captured,     \* whether the order's payment was captured
  reimbursements,        \* reimbursements, in order
  destination,  \* the buyer's refund account on the order
  proofs, confirmed,
  call,         \* Operators -> a decision whose proof was spent
  transfers     \* manual refund transfers that were submitted

reimbursementVars == <<captured, reimbursements, destination, proofs, confirmed, call, transfers>>

Reimbursed == DOMAIN reimbursements
NoCall == [id |-> 0, version |-> 0, approve |-> FALSE, proof |-> <<>>]
NoReference == "none"

ASSUME ReimbursementAssumption == NoReference \notin References

NewItem(actor, key) ==
  [status |-> "requested", by |-> actor, key |-> key, version |-> 1, decidedBy |-> "none",
   proof |-> <<>>, paidTo |-> "none", reference |-> NoReference]

\* The id, version and direction a proof is bound to.
ReimbursementDecisionRef(id, version, approve) == <<id, version, approve>>

-----------------------------------------------------------------------------
\* An order whose payment was never captured names no buyer.
OrderBuyer == captured

\* A repeated key of the same admin finds the stored request.
Stored(actor, key) == \E i \in Reimbursed : reimbursements[i].by = actor /\ reimbursements[i].key = key

Request(actor, key) ==
  /\ OrderBuyer /\ ~Stored(actor, key) /\ Len(reimbursements) < MaxReimbursements
  /\ reimbursements' = Append(reimbursements, NewItem(actor, key))
  /\ UNCHANGED <<captured, destination, proofs, confirmed, call, transfers>>

\* Identity: the password is confirmed for one decision.
Confirm(actor, ref) ==
  /\ StepUp /\ confirmed < MaxProofs /\ confirmed' = confirmed + 1
  /\ proofs' = proofs \cup {[id |-> confirmed', admin |-> actor, ref |-> ref]}
  /\ UNCHANGED <<captured, reimbursements, destination, call, transfers>>

\* The proof is spent before the reimbursement is locked.
SpendProof(actor, id, version, approve) ==
  LET ref == ReimbursementDecisionRef(id, version, approve)
  IN  /\ call[actor] = NoCall
      /\ IF StepUp THEN \E p \in proofs : p.admin = actor /\ p.ref = ref /\ proofs' = proofs \ {p}
         ELSE UNCHANGED proofs
      /\ call' = [call EXCEPT ![actor] = [id |-> id, version |-> version, approve |-> approve, proof |-> ref]]
      /\ UNCHANGED <<captured, reimbursements, destination, confirmed, transfers>>

DecidesOwn(actor, i) == i.status = "requested"

\* Never by the admin who prepared it.
MayDecideItem(actor, i) == i.status = "requested" /\ actor # i.by

Save(id, new) == reimbursements' = [reimbursements EXCEPT ![id] = [new EXCEPT !.version = @ + 1]]

Decide(actor) ==
  LET c == call[actor]
      i == reimbursements[c.id]
  IN  /\ c # NoCall
      /\ IF c.id \in Reimbursed /\ i.version = c.version /\ MayDecideItem(actor, i)
         THEN Save(c.id, [i EXCEPT !.status = IF c.approve THEN "approved" ELSE "rejected",
                                   !.decidedBy = actor, !.proof = c.proof])
         ELSE UNCHANGED reimbursements
      /\ call' = [call EXCEPT ![actor] = NoCall]
      /\ UNCHANGED <<captured, destination, proofs, confirmed, transfers>>

-----------------------------------------------------------------------------
(* The bank transfer.                                                      *)

VerifiedDestination == destination.status = "verified"

\* Manual refunds are asked; other reimbursements by a unique index.
BankReferenceUsed(ref) == \E t \in transfers : t.reference = ref
TakenByAnother(ref) == \E i \in Reimbursed : reimbursements[i].reference = ref

RecordPayment(id, version, ref) ==
  /\ id \in Reimbursed /\ reimbursements[id].version = version /\ reimbursements[id].status = "approved"
  /\ VerifiedDestination /\ ~BankReferenceUsed(ref) /\ ~TakenByAnother(ref)
  /\ Save(id, [reimbursements[id] EXCEPT !.status = "paid", !.paidTo = destination.account, !.reference = ref])
  /\ UNCHANGED <<captured, destination, proofs, confirmed, call, transfers>>

\* The transfer of a manual refund: its reference is unique for its source account.
SubmitTransfer(source, ref) ==
  /\ captured /\ VerifiedDestination /\ Cardinality(transfers) < MaxTransfers
  /\ [source |-> source, reference |-> ref] \notin transfers
  /\ transfers' = transfers \cup {[source |-> source, reference |-> ref]}
  /\ UNCHANGED <<captured, reimbursements, destination, proofs, confirmed, call>>

\* The buyer names an account, another one takes its place, or finance decides.
DestinationMoves ==
  /\ captured
  /\ \/ /\ destination.status # "pending" /\ destination.account < 2
        /\ destination' = [account |-> destination.account + 1, status |-> "pending"]
     \/ /\ destination.status = "pending"
        /\ \E s \in {"verified", "rejected"} : destination' = [destination EXCEPT !.status = s]
  /\ UNCHANGED <<captured, reimbursements, proofs, confirmed, call, transfers>>

OrderCaptured ==
  /\ ~captured /\ captured' = TRUE
  /\ UNCHANGED <<reimbursements, destination, proofs, confirmed, call, transfers>>

-----------------------------------------------------------------------------
ReimbursementsInit ==
  /\ captured = FALSE /\ reimbursements = <<>> /\ proofs = {} /\ confirmed = 0 /\ transfers = {}
  /\ destination = [account |-> 0, status |-> "none"]
  /\ call = [a \in Operators |-> NoCall]

ReimbursementsNext ==
  \/ OrderCaptured \/ DestinationMoves
  \/ \E a \in Operators, k \in Keys : Request(a, k)
  \/ \E a \in Operators : Decide(a)
  \/ \E a \in Operators, id \in 1..MaxReimbursements, approve \in BOOLEAN, v \in 1..2 :
       Confirm(a, ReimbursementDecisionRef(id, v, approve)) \/ SpendProof(a, id, v, approve)
  \/ \E id \in 1..MaxReimbursements, v \in 1..2, ref \in References : RecordPayment(id, v, ref)
  \/ \E source \in {"ops"}, ref \in References : SubmitTransfer(source, ref)

ReimbursementsSpec == ReimbursementsInit /\ [][ReimbursementsNext]_reimbursementVars

-----------------------------------------------------------------------------
\* Money leaves by two admins: a paid reimbursement was approved by another
\* admin than its preparer, who confirmed the password for the version that
\* was approved, and no two of them name one bank transfer
\* (reimbursement_usecase.go Decide, RecordPayment).
PaidByTwoAdmins ==
  \A i \in Reimbursed : reimbursements[i].status = "paid" =>
    /\ reimbursements[i].decidedBy \in Operators \ {reimbursements[i].by}
    /\ reimbursements[i].proof = ReimbursementDecisionRef(i, 1, TRUE)
    /\ \A j \in Reimbursed \ {i} : reimbursements[j].reference # reimbursements[i].reference
=============================================================================
