# Verification of the marketplace backend

TLA+ models of the services of this repository: stock, checkout, payments and
refunds, the life of a paid order, catalog, shops, staff, accounts, notices,
and the event bus and calls between them. TLC checks the models on small
instances; TLAPS proves the most important statements for every instance.

Paths below are relative to `src/backend/`.

## 1. The system and its parts

| Part | State it keeps | Operations | Talks to |
|---|---|---|---|
| **Inventory** | balances, `reservation_operations`, `stock_movements` ledger, outbox, adjustments, restock requests | reserve, commit, release; expiry, outbox and alert workers; repair; adjustments by one or two people | called by Order; tells Order and Catalog |
| **Order, checkout** | `checkout_operations`, `orders`, vendor orders, `cart_consumptions` | checkout, recovery, cart worker, key expiry | Catalog, Cart, Vendor, Shipment (plan), Inventory, Cart |
| **Order, payment outcome** | `orders.status`, `order_payments` | MarkPaid, MarkPaymentFailed, ReservationExpired | Inventory, Payment |
| **Order, after payment** | vendor orders, refunds, returns, cancellations, delivery exceptions, support cases, holds, `order_effects` | buyer, shop, admin and shipment-event transitions; effect worker | Payment, Shipment, Inventory, Notification |
| **Payment, money in** | intents, links, receipts, `payment_order_sync` | create, webhook, reconcile, deliver the outcome | provider, Order |
| **Payment, money out** | refunds, approvals, settlement ledger, holds, payouts, reimbursements, statements | maker-checker operations, claims, batches | Order, Vendor |
| **Catalog** | products, categories, rules, pictures, caches, status outbox | vendor edits, moderation, workers | Order, Inventory, Vendor |
| **Vendor** | shops, vacations, staff, payout accounts, return destinations, policies | owner, staff and admin operations, scheduler | Catalog, Order, Payment, Notification |
| **Identity, Admin** | accounts, sessions, links, grants, proofs, audit | login, refresh, changes, grants, second factor | every service |
| **Shipment** | attempts, evidence, carriers, zones, fee rules | shop, carrier and admin operations | Order |
| **Notification, Review, Cart** | notices, inbox; reviews, photos; carts, snapshots | workers, buyers, moderators | Order, Vendor, Catalog |
| **Event bus** (`pkg/eventbus`) | JetStream stream, one `event_inbox` per consumer | publish, fetch, process, park, replay, discard, purge | every service |

Nothing is shared between services but calls and events; within a service the
shared state is PostgreSQL, with row locks, advisory locks, `SKIP LOCKED`
workers and compare-and-set updates.

**What is hard here.** Requests, workers of several replicas and admins act on
one thing at once; a request can die between its transactions; an HTTP call can
be applied and still time out for the caller, or arrive after the caller has
undone it; receipts, outcomes and events arrive twice, late and out of order; a
provider reports success after failure; a lease ends while its holder still
works; what was read before a lock or a call is stale after it; every queue has
a retry limit after which a human has to look. `PROJECT.json` lists these
hazards at their lines.

**What correct means** is stated at the properties; section 3 names them per run.

## 2. Modules

| Module | Models | Checked in |
|---|---|---|
| `Reservation` | what Inventory promises Order about one order's receipt (abstract) | `inventory` |
| `Inventory` | the stock service; implements `Reservation` | `inventory`, `workers` |
| `Checkout` | the checkout saga with its workers; uses `Reservation`; its last part holds what only TLC needs | `checkout_race`, `checkout_faults` |
| `EventDelivery` | what the bus promises a consumer about one event (abstract) | `workers` |
| `EventBus` | outbox, stream, replicas, inbox; implements `EventDelivery` | `workers` |
| `PaymentOutcome` | Payment's outcome delivery and Order's verdict; uses both promises | `outcome_*`, `workers` |
| `PaymentIntents` | intents, provider links, receipts, reconciliation | `money` |
| `Approvals`, `Refunds` | maker and checker; manual transfers, destinations, outcome delivery | `money` |
| `Settlement` | vendor ledger, holds, payouts; money paid outside a capture | `money` |
| `OrderLifecycle` | vendor orders, shipment events, refunds, effects of one order | `orders`, `support` |
| `DeliveryExceptions`, `Returns` | cancelling a paid package against its handover, attempts and evidence, returns | `orders` |
| `SupportCases` | cases, payout holds, intakes; deadlines and files of cases | `support` |
| `Catalog`, `CatalogTemplates`, `Storefront`, `Review` | products and their status fence, categories and rules, caches and pictures, reviews | `catalog` |
| `Shops`, `ShopAccounts` | applications, vacations, selling status, records; payout accounts and return destinations | `catalog` |
| `Purchase`, `ShippingFees` | carts and amounts; fees, methods, policies | `trade` |
| `StockAdjustments`, `BulkImport` | stock by hand, alerts, drift; imports, exports and reports | `trade` |
| `Identity`, `AdminAccess`, `VendorStaff` | accounts, sessions, requests; admins and audit; staff and grants | `access` |
| `Services`, `Notices` | start, stop, modes of delivery and calls; notices of buyers and shops | `workers` |
| `MC*` | instances and compositions for TLC | – |
| `InventoryProofs`, `CheckoutProofs` | theorems about stock and about the checkout saga | – |
| `PaymentOutcomeProofs`, `MoneyProofs` | theorems about money in, refunds, payouts, reimbursements and their composition | – |
| `OrdersProofs` | theorems about the life of a paid order, its delivery cases and returns | – |
| `EventBusProofs`, `SupportProofs` | theorems about the bus and about support cases | – |
| `AccessProofs` | theorems about accounts, requests, shop staff, admins and the audit search | – |

The two abstract specifications are the seams. `Checkout` and `PaymentOutcome`
use `Reservation` instead of the whole stock service, and `Inventory` is
checked and proved to implement it; `PaymentOutcome` uses `EventDelivery` for
its events, and `EventBus` is checked and proved to implement it.
`DeliveryExceptions`, `Returns` and
`SupportCases` extend `OrderLifecycle`, `Refunds` and `Settlement` extend
`Approvals`: a transaction of one that changes the other's rows is one action
that joins both.

A module with several parts (say `Storefront`: caches, pictures, facts) keeps
parts of one component that share no table; each part has its own variables,
Init, next-state relation and specification. The last part of `Inventory` and
`Checkout` holds the carts and the symmetry TLC uses.

**Composition with focus.** `MCMoney`, `MCOrders`, `MCSupport`, `MCCatalog`,
`MCTrade`, `MCAccess` and `MCWorkers` check components that share no table of
the model. Their product would multiply state spaces and show nothing, so
`focus` is chosen in the initial state and one behaviour moves one component
while the others rest. A property such as `MoneyAddsUp` is the conjunction of
its components' named properties. In `MCOrders` the components share one order:
a cancellation, a delivery case or a return moves one of its vendor orders and
the other stays where it started, so that symmetry in the vendor orders merges
only what the lifecycle itself can exchange.

Definitions whose comment begins with "Mutant" are wrong versions of the
definition they stand next to. No specification uses them: putting one in the
place of its original must violate the property named in `PROJECT.json`, which
shows that the property can see that kind of mistake.

### How state and actions correspond to the code

One action per transaction, outbox delivery, call or timer; what one
transaction changes is changed by one action, and a request that reads before
a lock or a call keeps what it read in a variable of its own (`busy`, `proc`,
`reading`, `tx`). A refused or repeated call is a stuttering step. Time is
flags or a small clock that worker steps wait for. The header of each module
says what a behaviour follows (one order, one shop, one account, one notice):
rows of different owners do not interact in the code, and where they do (two
refunds of one capture, two captures of one order, two vendor orders, two
admins, two replicas) the instance holds both.

* **Inventory.** `stocked`, `available`, `reserved` are `inventory_items`; `op`
  is `reservation_operations` with its lines (`due` for a passed `expires_at`,
  `attempts` for `expiry_attempts`); `movements` is `stock_movements`, keyed by
  `operation_key`; `outbox` is `inventory_outbox`. `ReserveAtomic`,
  `CommitByOrderID`, `ReleaseByOrderID` (with its tombstone), `ExpireOne`,
  `Dispatch`, the three `Repair`s, `CreateItem`, `Restock` and
  `RecordStockCount` are the operations; `finish` is the function of that name.
  `Init` is what migration 000005 can leave: operations of legacy holds,
  pending, committed or released, for which no ledger row was ever written
  (migration 10: "No synthetic movements"). `opening` is the reserved stock the
  migration found; the ledger explains what came after it.
* **Checkout.** `proc[p].pc` is where a request or worker is between the steps
  of `runCheckout`, `abandonCheckout`, `recoverCheckout`, `resolveHeld`;
  `Crash`, `ReadyErrs`, `AbandonErrs`, `RunReleaseUnanswered` and
  `MarkPaidRollsBack` are faults. A Reserve call may reach Inventory at any
  later time. One buyer: buyers share only stock, which appears as a refusal.
  `Abandon` cancels whatever the order has become meanwhile unless it is
  cancelled already, as `abandonCheckout` does.
* **PaymentOutcome.** `intent` is `payment_intents.status`, `sync` the row the
  trigger writes, `order`, `record`, `report` are Order's status, its
  `order_payments` row and its `report_rejected_outcome` effect, `receipt` is
  Inventory's. With `UseBus` "delivered" means published and refusals come back
  as events; without it the answer is the verdict and an unanswered call may
  still arrive.
* **EventBus.** One publisher, one durable consumer; `stream` holds up to
  `MaxCopies` messages of an event id, any replica can fetch an unacknowledged
  message, `ProcessSucceeds` is the inbox transaction, `GivesUp` decides
  between retry and parking. JetStream itself is external.
* **Refunds.** `sent` counts the transfers that really left; operators are
  taken to submit what they did and reviewers to decide by the bank statement,
  because the code has no other source for it. What is checked is that claims,
  expiries, destinations and verdicts of several people never disagree with it.
* **PaymentIntents.** Amounts are reduced to whether a payment matches;
  receipts whose intent stays unknown are parked by age.
* **Settlement.** The ingest of a vendor order and the resolution of a refund
  are two transactions without a common lock, so each is a step that reads and
  a step that commits; `crowded` remembers the vendor orders of which two were
  open at once. Two refunds of one vendor order posted at once may also give
  back more commission than was taken (`settlement.go:114-135`).
* **OrderLifecycle, DeliveryExceptions, Returns.** Quantities of money are
  small; the return window, fees and deadlines are left out, and so is
  Shipment's plain "returned" event, which changes no vendor order.
* **SupportCases.** A stale `expected_version` is a refusal; messages are left
  out. The effect that releases a source's hold may be refused or run out of
  attempts; it is then parked until an operator replays it.
* **Storefront.** A cached value is old from when its owner answered, and
  served for so long after its write: a slow writer (`MaxLag`) adds to its age.
* **ShopAccounts.** Editing an address and designating it lock no common row,
  so an edit is a step that looks for destinations and a step that commits.
* **Purchase, ShippingFees.** Versions and shown policies are compared only
  when the request names them; a cart's versions start again after its purge.
* **VendorStaff.** A change that meets an uncommitted change of its grantor
  waits (`waiting`) and goes on with the grantor's new role and version, but the
  permissions read before the wait, as `FindMembership` does.
* **Services.** What a service needs to start, in which order it stops, what a
  caller concludes from an answer, an error or silence, per kind of call. An
  owner may be rolled back to a version without the newer routes (`NewRoutes`);
  what its 404 means is up to each client (`KnowsNewRoutes`).

## 3. Runs

| Run | Properties | Instance | States |
|---|---|---|---|
| `inventory` | `ReservedMatchesHolds`, `OnHandBounded`, `StockExplained`, `FinishedStaysFinished`, `ImplementsReservation` | 2 interchangeable orders, 2 items, lines and stock up to 2, one receipt, one expiry attempt | 739,709 |
| `checkout_race` | `CompletedIsReady`, `OneReadyOrderPerKey`, `OneOpenCart`, `DecidedStaysDecided` | 2 orders, 1 key, 2 requests, 1 worker, no faults | 2,386,345 |
| `checkout_faults` | `StockAccounted`, `CheckoutEnds` | 1 order, 1 key, 1 request, 1 worker, 2 faults | 28,082 |
| `outcome_http` | `CapturedMoneyAccounted`, `PaidByOneCapture`, `VerdictIsFinal`, `OutcomesSettle` | 1 order, 3 intents, HTTP | 73,528 |
| `outcome_bus_retry` | `CapturedMoneyAccounted` (violated) | 1 order, 2 intents, bus | about 2,600 until the counterexample |
| `money` | `OutcomeMatchesMoney`, `DestinationFrozen`, `MoneyAddsUp`, `PaymentsAreProven`, `CaptureIsFinal` | 2 refunds, 2 admins, 3 approvers, 2 destination versions, 2 attempts; 1 vendor order, 2 items, 1 hold; 2 intents, 1 mishap; 2 receipts | 1,002,826 |
| `orders` | `RefundsWithinTotal`, `PackagesDecideOrder`, `GoodsAndMoneyAgree`, `ParcelsCountOnce` | 2 interchangeable vendor orders of 2 units of money, 2 refunds, 1 of them a dispute's; 2 attempts and 1 cancellation of a package; 1 return of 2 units | 2,496,627 |
| `support` | `CasesAreKept`, `OpenSourceKeepsHold`, `CasesEnd` | 1 case, 1 intake, 2 refunds; 1 source; 2 stages, time up to 3; 2 files, 2 cleaners | 114,400 |
| `catalog` | `SoldAsShown`, `ShopRecordsHold`, `DecisionsStand` | 1 variant, 2 prices; 2 categories, 3 attributes; 3 objects; 2 shops; 2 workers, 2 versions; writes up to 2 ticks late | 920,005 |
| `trade` | `BuyerPaysWhatWasShown`, `RecordsAreTrue` | 2 shops, 2 fees, 2 carts; 2 rows, 2 workers; 2 admins; 2 orders, 2 packages | 3,252,321 |
| `access` | `AccessIsProven`, `GrantsComeFromHolders` | 1 owner, 2 staff; 2 addresses, tokens and links; 2 admins, 2 requests; 4 possible audit rows; 2 commits of a command | 2,658,321 |
| `workers` | `AppliedOnce`, `AckedIsSettled`, `WordsAreKept`, `ImplementsDelivery`, `WorkEnds` | 1 event, 2 replicas, 2 copies, 2 faults; 2 workers; 2 retries of a notice, cap 3; 23 kinds of call | 214,676 |

What the properties say, in short; each is stated in full where it is defined.

* `inventory`: reserved stock is exactly what pending orders hold
  (`ReservedMatchesHolds`), no return or count exceeds what CHECK constraints
  allow (`OnHandBounded`), the ledger explains the balances and no unit appears
  or vanishes (`StockExplained`), an operation ends once, and Inventory
  implements `Reservation`.
* `checkout_race`: one ready order per key, one open cart task per buyer, a
  completed operation's order is ready, a decision is final: a finished
  checkout keeps its end and cancelled stays cancelled. A paid order stays paid
  but for an abandon that was under way before recovery made it ready, and then
  the release of its stock is queued.
* `checkout_faults`: after crashes and lost answers no stock is leaked or sold
  unaccounted (`StockAccounted`), and operation, cart task and release end
  (`CheckoutEnds`).
* `outcome_http`: one capture pays, captured money pays or is up for review,
  verdicts are final, outcomes settle. `outcome_bus_retry` is the finding below.
* `money`: a refund's outcome says what happened to the money, and its
  destination is frozen once money may be on its way; amounts add up
  (`MoneyAddsUp`: refunds within the capture, ledger equals what is owed, holds
  stay, statements add up); reimbursements, payouts, captures, receipts are
  proven (`PaymentsAreProven`); a capture is final. That every succeeded refund
  of a settled vendor order is charged is part of it where no two of its
  transactions overlapped.
* `orders`: refunds within what was paid, the parent status never ahead of its
  packages, the fence between cancellation and handover, stock back before it
  is sold, each carrier decision and each return's refund once. A stopped package
  never ships while no dispute refund stands beside the cancellation's, and what
  was put back on sale is back wherever that holds.
* `support`: disputed money is held, released holds stay released, a case
  follows its refund, waits cost operators no time, evidence is kept
  (`CasesAreKept`); deadlines are told or parked, and payouts freed unless their
  release is parked for an operator (`CasesEnd`).
* `catalog`: sold content was approved, the nearest rule decides, cached
  answers are recent from their write on, pictures exist, destinations were
  verified, as seen unless an edit was open meanwhile; copies of a status never
  go back (`DecisionsStand`).
* `trade`: the order charges what was confirmed, its fee and policies can be
  explained; stock by hand is exact and checked by two where asked; an import
  row is applied once; exports and reports are one moment.
* `access`: sessions and links follow the account, requests were admitted live,
  operations have their proof, acts name their grant; staff get only what the
  sender of their invitation holds, or held when the acceptance began to wait.
* `workers`: an event is applied once and never acknowledged unsettled; what a
  service marked sent is kept; a call ends on its owner's word or, where its
  client does not know a later route, on the 404 of an owner rolled back
  (`WordsAreKept`); overdue holds, outcomes, notices and facts end, are parked
  or, for a notice, have used up their attempts (`WorkEnds`); the bus implements
  `EventDelivery`.

Why the bounds are enough. Each instance has the pair of actors or rows that
can interact and one more attempt, fault or version than the shortest scenario
of its hazards needs; the cfg files and the comments at the constants name
every bound. Bounds that are not the code's: the limits on faults, crashes,
retries and replays, on versions, copies, attempts, requests, commits,
disputes, time, how late a cache is written (`MaxLag`), and `RefundBound`,
`IntentBound`, `LedgerBound`, `OrderBound`, `ParcelBound`, `CaseBound` and
`MishapBound` in the MC modules, which cap how much one run combines. Where the
code's limit is large (ten attempts, fourteen days) the instance uses the
smallest value that keeps the order of the limits.

Deadlock is checked in the Inventory and checkout runs. The other runs switch it
off because the modelled work may really be done: an order is decided, a case
closed, an event settled, or a bound is reached.

**Fairness.** Weak fairness of a worker's step says that the loop comes round
to every due row (`Maintenance.Run`, `OrderWorker.Run`, `OrderSync.Run`,
`Bus.run`, the deadline worker and the notice workers tick for as long as the
service is up). Strong fairness is assumed where one process takes turns
(`RecoverCheckout`, `ResolveHeld`, `Fetch`): a row that is due again and again
is taken some time. A running handler goes on, by failing if nothing else.
Nothing is assumed of faults, of handlers succeeding, of buyers, providers or
operators. In `MCWorkers` the fairness conditions of the components are taken
together in numbered slots: with focus constant, weak fairness of a
disjunction over components is the weak fairness of the one that moves.

## 4. Proofs

Each theorem holds for every value of the constants that satisfies the named
`ASSUME`s. The argument is the same everywhere: an inductive invariant, one
lemma per action or group of actions that keeps it, and a temporal step. What
follows says what the invariant adds to the property and why it is needed.

* **`InventoryProofs`.** `StockInv` adds to `ReservedMatchesHolds` that the
  lines of an operation are of stocked items and that stock on hand stays within
  its bounds; a line of n is a set of n units (`LineUnits`), so that "the sum of
  what pending orders hold" is the cardinality of a set of units, which the
  library's theorems can count. `HoldsCanAlwaysFinish`: no commit or release of
  a pending hold can fail on the CHECK constraints. `Refinement`: every step is a
  step of `Reservation` or a stutter. Several items and orders, any carts.
  `LedgerInv` carries `StockExplained`. The sum of ledger rows is the units that
  come in less the units that go out, two sets, so that no induction over a set
  of rows is needed. `KeysSpent` says how far an order is from the keys of its
  rows: without it a second hold or a second end could write a row that is there
  already, which moves a balance and leaves the sum where it was. The stock the
  migration found reserved (`opening`) is a constant of the behaviour: the sum of
  the rows is what was reserved or released since.
* **`CheckoutProofs`.** `CheckoutInv` remembers the key an order was created
  under: a process and an operation that name an order agree with it unless
  the key has expired, and an order of a living key is ready only if the key's
  operation completed with it. From it: one ready order per key, completed means
  ready, one open cart task, stock accounted, decisions final, for any number of
  orders, keys, requests, workers and faults. The exception for a paid order is
  part of the theorem: such a step can only be an abandon begun before.
* **`PaymentOutcomeProofs`.** That an applied capture arrived depends on what
  is still under way, so `CapturesAreReal` says "captured" is only queued,
  called or published for money that arrived. `StepKeepsVerdicts` compares one
  step's verdicts. `CapturedMoneyAlwaysAccounted` adds `MoneyInSight`, where the
  money of a capture without a verdict is found, and is about HTTP only: over
  the bus the statement is false (section 5). One capture per order and final
  verdicts are proved for both ways.
* **`EventBusProofs`.** The inbox survives its purge because a row is never
  older than a message that can still be delivered; `BusInv` compares those ages
  and uses that rows are kept longer than messages (`AgesAssumption`). From it:
  an event is applied once, an acknowledged message is settled, and the bus
  implements `EventDelivery`.
* **`MoneyProofs`.** `RefundsInv` ties a refund to its newest transfer attempt:
  an open refund has sent what that attempt sent, a resolved one has none under
  way, and only the newest destination is current. From it: the outcome matches
  the money, the destination is frozen, a resolution stands.
  `FreshEvidenceAlwaysKept` is about the clean-up of receipts: what a cleaner
  listed is old, and a row only gets older. Every way to capture an intent
  passes something that already knew of the payment: a receipt, or a process
  about to write one. `IntentsInv` says both are about paid links, and that
  paid links stay paid; `ReceiptsInv` does the same for webhook, worker and
  administrator on one receipt. `SettlementInv` says per approval state of a
  payout who approved it, and that both approvers differ from each other and
  from its creator, so that counting them (`ApproversCount`) gives what its
  amount and destination ask for; its requests keep maker and checker apart.
  `ReimbursementsInv` ties a decision to the proof spent for exactly that
  version, and a bank transfer to one reimbursement. `MoneyAddsUp` is about
  sums. Its lemmas rest on `SmallestPart`: in a finite set whatever fails for
  some part fails for a smallest part, an induction that needs no operator as a
  parameter. From it a fold over a set exists, is unique (`FoldExists`,
  `FoldsAgree`) and does not depend on the order (`TotalWithout`,
  `TotalOfUnion`), also the fold that posts the refunds which came before their
  vendor order (`EarlierPosted`). `AddsUpInv` says of the ledger that every
  entry tells where it comes from (`EntryIsSound`), only succeeded refunds of
  settled vendor orders are charged, the payouts under way or done claim
  disjoint sets of entries, and payout entries and the entries they paid sum to
  zero. `TransactionsInv` follows the open transactions: of a vendor order that
  no two of them ever shared (`Calm`) what a transaction read is still so when
  it commits, and exactly its succeeded refunds are charged. Two parts are not
  in any property and carry the proof: a commission goes wherever the sale of
  its vendor order goes (`MovesWhole`), without which the SQL statement and the
  Go payout would disagree on whether a commission alone is held, and a payout
  waiting for approval is pending. `CommittedInv` keeps the cap, and what was
  sent is refund by refund at most what was committed. `SettlementAssumption`
  says here that refunds are finitely many and that "none", which the model
  writes for the missing vendor order of an adjustment or payout, is no vendor
  order. The last part is about the composition: `MoneyNext` moves one
  component (`MoneyRunsComponents`), so that what is proved of a component
  holds in `MoneySpec`, and with it the run's `PaymentsAreProven` as a whole.
* **`OrdersProofs`.** Five invariants. `LifecycleInv`: the parent's status is
  what the vendor orders made it, where the lemmas about `AggregateStatus` say
  that the minimum over a non-empty set is below every member, and every
  completed sale has its settlement effect. `ExceptionInv` adds `ShipmentInv`
  (attempts, events under way, and what Shipment already decided), `CaseInv`
  (a case's refund, answer and redelivery exclude each other, also while
  Shipment's answer is late) and `FenceInv` (a handover that was granted holds
  no claim until it is recorded; a claim is only taken when none is granted).
  `RecordsInv`: a cited file is attached before a loss says so, and what the
  cleaner found unattached is taken only while it still is. `ReturnsInv`: every
  refund a return lists is its own, and only the newest can be open or paid.
  `SumsOK`: the refunds of a vendor order are counted as units of money
  (`RefundUnits`: a refund of n is n units of its own), so that a sum over the
  list of refunds is the cardinality of a finite set, and a step moves one
  refund's units between two such sets (`OneRefundMoves`, `StatusMoves`). Every
  way to ask for a refund asks for at most what the open and paid ones leave
  (`RefundStep`), which is all `RefundsWithinTotal` needs. `MCInv` joins them for
  the run: the component that moves keeps its own invariant, and what it does
  to the shared order keeps the invariants of the others.
  The invariants hold for any number of vendor orders, refunds, attempts and
  returns; messages arrive late, twice and in any order.
* **`SupportProofs`.** Four invariants. `SourceInv`: only an ended return or
  refund has its hold sent for release. `SupportInv`: `HoldAgrees` says how far
  case, Order's hold row and Payment's ledger may differ (a hold counts as
  confirmed only when the ledger has it, is released only for a closed case,
  and the ledger releases nothing unasked), `AnswersAreRecorded` that an
  answer under way tells what the ledger has, `FollowsRefund` that a case stands
  where its refund does. `FilesInv`: what a worker listed could go, and can still
  go unless its row changed (`CleanerIsLate`), so a stale list removes nothing
  that was attached meanwhile. `DeadlineInv`: during a wait the operators have
  what they had when it began. `CasesAlwaysKept` joins the parts, which share no
  table.
* **`AccessProofs`.** One invariant per part. `GrantsInv`: the grant a command
  was allowed by covers it, also when the membership changed before it commits,
  because the audit row names the version and versions never change afterwards.
  `StaffInv`: a job mails the token stored last, what is marked sent was mailed,
  and only the owner owns; who waits for a grantor's row holds permissions the
  grantor had (`waiting`). `AccountsInv`: a token that works is the only one of
  its session and of this password, and what a delivery read without a lock it
  checks again under it; a link that works went to the account's address.
  `RequestsInv`: each process runs with the keys of this stage of the rotation
  or of the one before, and a token whose key is no longer trusted has expired;
  that is why the order of the restarts and the wait of one `Lifetime` suffice.
  `ChangesInv`: grants whose version did not move did not change. `FactorInv`:
  the codes of an admin are spent once, no proof without a code of its own (a
  reauthentication under way counts as one to come), no operation without a
  proof. `SearchInv`: what the pages went beyond was shown once, and an answer
  leaves out only rows older than a full page. `AccessAssumption` says what the
  ids are: the owner is not on the staff, versions, tokens, links, steps and
  proofs are numbered, approvers are admins, audit rows are finitely many, and a
  page has room for a row.

| Theorem | Run property |
|---|---|
| `InventoryProofs!ReservedAlwaysMatches` | `ReservedMatchesHolds` |
| `InventoryProofs!OnHandAlwaysBounded` | `OnHandBounded` |
| `InventoryProofs!FinishedIsFinal` | `FinishedStaysFinished` |
| `InventoryProofs!Refinement` | `ImplementsReservation` |
| `InventoryProofs!StockAlwaysExplained` | `StockExplained` |
| `PaymentOutcomeProofs!PaidByOneCaptureAlways` | `PaidByOneCapture` |
| `PaymentOutcomeProofs!VerdictsAreFinal` | `VerdictIsFinal` |
| `EventBusProofs!AppliedOnceAlways` | `AppliedOnce` |
| `EventBusProofs!AckedAlwaysSettled` | `AckedIsSettled` |
| `EventBusProofs!BusRefinement` | `ImplementsDelivery` |
| `MoneyProofs!OutcomeAlwaysMatchesMoney` | `OutcomeMatchesMoney` |
| `MoneyProofs!DestinationAlwaysFrozen` | `DestinationFrozen` |
| `CheckoutProofs!CompletedAlwaysReady` | `CompletedIsReady` |
| `CheckoutProofs!OneOrderPerKey` | `OneReadyOrderPerKey` |
| `CheckoutProofs!AtMostOneOpenCart` | `OneOpenCart` |
| `CheckoutProofs!StockAlwaysAccounted` | `StockAccounted` |
| `CheckoutProofs!DecisionsStand` | `DecidedStaysDecided` |
| `PaymentOutcomeProofs!CapturedMoneyAlwaysAccounted` | `CapturedMoneyAccounted` |
| `SupportProofs!OpenSourceAlwaysKeepsHold` | `OpenSourceKeepsHold` |
| `SupportProofs!CasesAlwaysKept` | `CasesAreKept` |
| `MoneyProofs!PaymentsAlwaysProven` | `PaymentsAreProven` |
| `MoneyProofs!CaptureFinalForMoney` | `CaptureIsFinal` |
| `MoneyProofs!RefundsHoldForMoney` | `OutcomeMatchesMoney` |
| `MoneyProofs!MoneyAlwaysAddsUp` | `MoneyAddsUp` |
| `OrdersProofs!PackagesAlwaysDecide` | `PackagesDecideOrder` |
| `OrdersProofs!RefundsAlwaysWithinTotal` | `RefundsWithinTotal` |
| `OrdersProofs!OrderRefundsWithinTotal` | `RefundsWithinTotal` |
| `OrdersProofs!OrderPackagesDecide` | `PackagesDecideOrder` |
| `OrdersProofs!ParcelsAlwaysCountOnce` | `ParcelsCountOnce` |
| `AccessProofs!ActsAreProven` | `AccessIsProven` |
| `AccessProofs!PermissionsComeFromHolders` | `GrantsComeFromHolders` |

Theorems about single components, which a run checks as a conjunct of a larger
property or not at all: `TypeCorrect`, `HoldsCanAlwaysFinish`,
`ExpiryAlwaysAnnounced`, `OutcomeTypeCorrect`, `BusTypeCorrect`,
`RefundsTypeCorrect`, `ResolutionStands`, `CheckoutTypeCorrect`,
`IntentsInvariant`, `CaptureAlwaysFinal`, `CaptureAlwaysReal`,
`ReceiptAlwaysAppliedOnce`, `ReleasesStand`, `SupportInvariant`,
`DisputedMoneyAlwaysHeld`, `CasesAlwaysFollowRefunds`, `EvidenceAlwaysKept`,
`OperatorsAlwaysKeepTime`, `MissesAreRemembered`, `FreshEvidenceAlwaysKept`,
`PayoutsAlwaysApproved`, `AlwaysPaidByTwoAdmins`, `MoneyRunsComponents`,
`FenceAlwaysHolds`, `RefundedNeverRedelivered`, `LossAlwaysProven`,
`DecisionsAppliedOnce`, `ReturnsRefundedOnce`, `OrderHandoverIsFenced`,
`GrantsAreNamed`, `StaffAreLetIn`, `SessionsFollowCredentials`,
`NobodyIsSignedOut`, `AdminsAreProven`, `AuditPagesAreComplete`.
`RefundsHoldForMoney` states `DestinationFrozen` as well.

A theorem is about the specification of its component; those that end in
`ForMoney` or begin with `Order`, `PaymentsAlwaysProven`, `MoneyAlwaysAddsUp`,
`ParcelsAlwaysCountOnce`, `ActsAreProven` and `PermissionsComeFromHolders` are
about the composition. The runs of
section 3 that move several components check the same component next to others
it shares nothing with, within bounds that the theorem does not need.

What stays with TLC, and why:

* liveness under fairness, and `ENABLED`: the provers do not reach them
  (`CheckoutEnds`, `OutcomesSettle`, `CasesEnd`, `WorkEnds`);
* `BuyerPaysWhatWasShown`, which is about what folds over sequences compute:
  a library theorem about them would take an operator as its parameter;
* of `GoodsAndMoneyAgree` the parts `StoppedStaysStopped` and
  `RestockedGoodsAreBack`, both with the exception section 5 shows. The
  other two parts are proved
  (`OrderHandoverIsFenced`), for any number of disputes;
* the components no proof module is about: `SoldAsShown`, `ShopRecordsHold`,
  `DecisionsStand`, `RecordsAreTrue` and `WordsAreKept` are only
  model-checked.

## 5. Findings

**A retry over the bus loses a refused capture** (`outcome_bus_retry`). The
retry publishes the same event id, Order's inbox has processed it, nothing
happens, and the row counts as delivered. The refusal's `order_payments` row
was rolled back with the savepoint, so neither service lists the money.

Seven more places where a comment, migration or runbook says more than the code
gives. The passing runs and the theorems check what the code keeps, with the
exception named in the property; what the text says is a definition of its own
beside it, which is not among the runs of section 3. Added to the named
configuration, TLC finds it violated.

* **A stalled request cancels a paid order** (`PaidStaysPaid`,
  `CheckoutRace.cfg`). A request whose reserve call failed waits before it
  abandons its order; recovery finds the hold, makes the order ready, the buyer
  pays, and `cancelLocked` cancels from whatever status it reads. Inventory
  refuses the release, whose hold is committed. `lifecycle.go:71-73` says paid
  orders are never cancelled.
* **A refund is charged to nobody** (`SettledRefundsCharged`, `Money.cfg`). The
  ingest of a vendor order and the resolution of its refund each miss the
  other's uncommitted row. `settlement_usecase.go:108-110` says it is posted
  when the vendor order is reported.
* **A stopped package ships** (`StoppedNeverShips`, `Orders.cfg`). Beside a
  dispute refund of everything a cancellation finds nothing to refund, is
  resolved and restocks at once; the package is fulfillable again, for good
  when the dispute refund fails. `shipment_usecase.go:587` says a stopped
  package will not ship.
* **A return goes to a text nobody verified** (`ReturnsGoWhereChecked`,
  `Catalog.cfg`). An edit that found its address not designated commits after
  the owner designated it and the admin looked, under the version the admin
  then verifies. Migration `000012_return_destinations` says only checked
  destinations are copied.
* **An invitation works on lost permissions** (`InviterGrantsToday`,
  `Access.cfg`). An acceptance that waits for the demotion of the inviter goes
  on with the permissions it read before the wait. `staff_usecase.go:443-444`
  says the inviter must still be able to grant it.
* **A rolled-back owner refuses** (`RefusedByItsRules`, `Workers.cfg`).
  Shipment takes the 404 of an Order without the claim route as Order's refusal
  of the handover. `order_client.go:77-78` says only a 409 is a refusal.
* **A retried notice never leaves** (`RetryGivesAttempts`, `Workers.cfg`). At
  the cap the retry adds no attempt: the notice is pending, not claimable, and
  cannot be retried again. `notification_repository.go:213-214` says a retry
  gives a few more attempts.

Two more observations from modelling are listed as hazards: recovery does not
finish a checkout whose ready transaction failed, because the request marks
its operation failed (`checkout.go:80-84`) and recovery reads only preparing
ones, so the stock waits for its deadline; and a second refusal of one intent
is not reported, because the report's effect target is the intent for both
outcomes (`order/internal/transport/events.go:121`).

## 6. Not modelled

The frontend, gateway and admin dashboard (they show what others answer),
configuration, logging and telemetry, parsing and rendering (CSV cells, mail
text, provider and carrier wire formats, signatures as cryptography), search
and ranking, averages of ratings, message text, audit wording, and `MarkPaid`
without a capture, which only Payment builds older than this repository send.
Within the modelled components section 2 and each module's header say what is
left out. Of the hazards, two have no property: the parked cart task that
blocks its buyer's next checkout (the code has no step that ends it) and the
second report. The stream's size limit (1 GB, oldest first) is not modelled
either: the model drops messages by age, and volume needs message sizes.

## 7. Plan

The modules of section 2 are written. What proofs can still add: `Catalog` (the
status fence and its copies), the records of `Shops`, and
`RestockedGoodsAreBack`. The import instance has one job, so two uploads of one
file meet in no run.

`PROJECT.json` maps the definitions that model the most code, 800 of about
1,400; a small helper next to a mapped definition is not listed on its own.
