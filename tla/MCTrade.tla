------------------------------ MODULE MCTrade ------------------------------
(***************************************************************************)
(* How goods are bought, delivered and counted, for TLC: carts, checkouts  *)
(* and their prices, delivery fees and policies, stock changed by hand,    *)
(* files of many rows and reports.  Each has tables of its own, so one     *)
(* behaviour moves one of them: focus names it, and the others are absent. *)
(***************************************************************************)
EXTENDS Integers

CONSTANTS Components,   \* the components this run moves
          Absent,       \* the state of the others
          Shops, Fees, Rates, Quantity, VariantPricing, MaxAmount, Products,
          Tabs, Operations, Quantities, MaxQuantityPerLine, MaxLinesPerCart,
          MaxLines, MaxCarts, Carriers, Zones, Weights, Owners,
          PolicyVersions, ShopVersions, Askers, Keys, Requests,
          RequestQuantity, Returns, Admins, NoOne, InitialQuantity, Limits,
          SecondApprovalQuantity, MaxPolicies, MaxSales, MaxQuantity,
          Thresholds, MaxRetries, MaxStalls, MaxReleases, MaxFaults,
          MaxRepairs, Jobs, Rows, Workers, ShopRows, ClientIds, Options,
          MaxStock, Statements, Catalogues, MaxExportAttempts, MaxLedger,
          MaxEncoder, Orders, Packages, DayLength, LateAfter, PageLimit

VARIABLE focus         \* the component that moves
VARIABLES
  catalog, fees, rate, seen, purchaseShown, purchaseRequest, purchaseOrder,
  since, purchaseChanges, cart, cartLines, nextLine, cartRequest, view,
  purchaseOp, taken   \* Purchase
VARIABLES
  carriers, zoneOf, rules, setting, methods, default, feesChanges, enabling,
  quote, feesOrder, opening, shipment, feesNow, released, feesPolicy, shop,
  asking, outbox, known, feesShown, policyOrder   \* ShippingFees
VARIABLES
  item, stockPolicy, plan, stockOp, stockRequest, returned, allowed,
  stockChecking, sold, sales, watched, episode, claim, stockWorker, accepted,
  stockChanges, retries, stalls, operation, overdue, stockOrder, event,
  reading, repair, budget   \* StockAdjustments
VARIABLES
  job, row, applied, bulkWorker, dryRun, bulkChecking, acked, product,
  variant, options, products, refs, stock, exported, shopRow, file, object,
  writer, ledger, encoder, db, reportNow, reportChanges, owner, range, phase,
  snap, asOf, totals, series, ranking, panel, drill   \* BulkImport

\* A product page's answer with this price.
FactAt(price) == [found |-> TRUE, approved |-> TRUE, options |-> FALSE, visible |-> TRUE,
                  paused |-> FALSE, price |-> price, currency |-> "VND"]
FactsDef == {FactAt(1), FactAt(2)}
RulesDef == {[base |-> 2, free |-> 1000, extra |-> 1], [base |-> 5, free |-> 0, extra |-> 0]}
InputsDef == {[kind |-> "receipt", quantity |-> 2], [kind |-> "count", quantity |-> 3],
              [kind |-> "damage", quantity |-> -1]}
OrderOfDef == <<1, 2>>
ShopOfDef == <<1, 1>>

P == INSTANCE Purchase WITH
       Prices <- {5, 8}, MaxChanges <- 2, Facts <- FactsDef, MaxVersion <- 4,
       shown <- purchaseShown, request <- purchaseRequest,
       order <- purchaseOrder, changes <- purchaseChanges, op <- purchaseOp
F == INSTANCE ShippingFees WITH
       Rules <- RulesDef, MaxVersion <- 2, MaxChanges <- 5, MaxTime <- 1,
       changes <- feesChanges, order <- feesOrder, now <- feesNow,
       policy <- feesPolicy, shown <- feesShown
S == INSTANCE StockAdjustments WITH
       Inputs <- InputsDef, Workers <- {"w1"}, MaxAttempts <- 2,
       MaxChanges <- 3, policy <- stockPolicy, op <- stockOp,
       request <- stockRequest, checking <- stockChecking,
       worker <- stockWorker, changes <- stockChanges, order <- stockOrder
B == INSTANCE BulkImport WITH
       MaxAttempts <- 2, Prices <- {1, 2}, VariantPricing <- TRUE,
       MaxVersion <- 3, worker <- bulkWorker, checking <- bulkChecking,
       OrderOf <- OrderOfDef, ShopOf <- ShopOfDef, MaxTime <- 3,
       MaxChanges <- 2, now <- reportNow, changes <- reportChanges

purchaseGroup == <<catalog, fees, rate, seen, purchaseShown, purchaseRequest, purchaseOrder,
   since, purchaseChanges>>
cartGroup == <<cart, cartLines, nextLine, cartRequest, view, purchaseOp, taken>>
feesGroup == <<carriers, zoneOf, rules, setting, methods, default, enabling, feesChanges,
   quote, feesOrder, opening, shipment>>
policiesGroup == <<feesNow, released, feesPolicy, shop, asking, outbox, known, feesShown,
   policyOrder>>
adjustmentsGroup == <<item, stockPolicy, plan, stockOp, stockRequest, returned, allowed,
   stockChecking, sold, sales>>
alertsGroup == <<watched, episode, claim, stockWorker, accepted, stockChanges, retries,
   stalls>>
driftGroup == <<operation, overdue, stockOrder, event, reading, repair, budget>>
bulkGroup == <<job, row, applied, bulkWorker, dryRun, bulkChecking, acked>>
shopImportsGroup == <<product, variant, options, products, refs, stock, exported, shopRow>>
exportsGroup == <<file, object, writer, ledger, encoder>>
reportsGroup == <<db, reportNow, reportChanges, owner, range, phase, snap, asOf, totals,
   series, ranking, panel, drill>>
mcVars == <<focus, purchaseGroup, cartGroup, feesGroup, policiesGroup,
            adjustmentsGroup, alertsGroup, driftGroup, bulkGroup,
            shopImportsGroup, exportsGroup, reportsGroup>>

Only(component) ==
  /\ focus = component /\ UNCHANGED focus
  /\ IF component = "purchase" THEN TRUE ELSE UNCHANGED purchaseGroup
  /\ IF component = "cart" THEN TRUE ELSE UNCHANGED cartGroup
  /\ IF component = "fees" THEN TRUE ELSE UNCHANGED feesGroup
  /\ IF component = "policies" THEN TRUE ELSE UNCHANGED policiesGroup
  /\ IF component = "adjustments" THEN TRUE ELSE UNCHANGED adjustmentsGroup
  /\ IF component = "alerts" THEN TRUE ELSE UNCHANGED alertsGroup
  /\ IF component = "drift" THEN TRUE ELSE UNCHANGED driftGroup
  /\ IF component = "bulk" THEN TRUE ELSE UNCHANGED bulkGroup
  /\ IF component = "shopImports" THEN TRUE ELSE UNCHANGED shopImportsGroup
  /\ IF component = "exports" THEN TRUE ELSE UNCHANGED exportsGroup
  /\ IF component = "reports" THEN TRUE ELSE UNCHANGED reportsGroup

MCInit ==
  /\ focus \in Components
  /\ IF focus = "purchase" THEN P!Init
     ELSE /\ catalog = Absent /\ fees = Absent /\ rate = Absent /\ seen = Absent
          /\ purchaseShown = Absent /\ purchaseRequest = Absent
          /\ purchaseOrder = Absent /\ since = Absent
          /\ purchaseChanges = Absent
  /\ IF focus = "cart" THEN P!CartInit
     ELSE /\ cart = Absent /\ cartLines = Absent /\ nextLine = Absent
          /\ cartRequest = Absent /\ view = Absent /\ purchaseOp = Absent
          /\ taken = Absent
  /\ IF focus = "fees" THEN F!FeesInit
     ELSE /\ carriers = Absent /\ zoneOf = Absent /\ rules = Absent
          /\ setting = Absent /\ methods = Absent /\ default = Absent
          /\ enabling = Absent /\ feesChanges = Absent /\ quote = Absent
          /\ feesOrder = Absent /\ opening = Absent /\ shipment = Absent
  /\ IF focus = "policies" THEN F!PoliciesInit
     ELSE /\ feesNow = Absent /\ released = Absent /\ feesPolicy = Absent
          /\ shop = Absent /\ asking = Absent /\ outbox = Absent
          /\ known = Absent /\ feesShown = Absent /\ policyOrder = Absent
  /\ IF focus = "adjustments" THEN S!Init
     ELSE /\ item = Absent /\ stockPolicy = Absent /\ plan = Absent
          /\ stockOp = Absent /\ stockRequest = Absent /\ returned = Absent
          /\ allowed = Absent /\ stockChecking = Absent /\ sold = Absent
          /\ sales = Absent
  /\ IF focus = "alerts" THEN S!AlertsInit
     ELSE /\ watched = Absent /\ episode = Absent /\ claim = Absent
          /\ stockWorker = Absent /\ accepted = Absent /\ stockChanges = Absent
          /\ retries = Absent /\ stalls = Absent
  /\ IF focus = "drift" THEN S!DriftInit
     ELSE /\ operation = Absent /\ overdue = Absent /\ stockOrder = Absent
          /\ event = Absent /\ reading = Absent /\ repair = Absent
          /\ budget = Absent
  /\ IF focus = "bulk" THEN B!BulkInit
     ELSE /\ job = Absent /\ row = Absent /\ applied = Absent
          /\ bulkWorker = Absent /\ dryRun = Absent /\ bulkChecking = Absent
          /\ acked = Absent
  /\ IF focus = "shopImports" THEN B!Init
     ELSE /\ product = Absent /\ variant = Absent /\ options = Absent
          /\ products = Absent /\ refs = Absent /\ stock = Absent
          /\ exported = Absent /\ shopRow = Absent
  /\ IF focus = "exports" THEN B!ExportsInit
     ELSE /\ file = Absent /\ object = Absent /\ writer = Absent
          /\ ledger = Absent /\ encoder = Absent
  /\ IF focus = "reports" THEN B!ReportInit
     ELSE /\ db = Absent /\ reportNow = Absent /\ reportChanges = Absent
          /\ owner = Absent /\ range = Absent /\ phase = Absent /\ snap = Absent
          /\ asOf = Absent /\ totals = Absent /\ series = Absent
          /\ ranking = Absent /\ panel = Absent /\ drill = Absent

MCNext ==
  \/ Only("purchase") /\ P!Next
  \/ Only("cart") /\ P!CartNext
  \/ Only("fees") /\ F!FeesNext
  \/ Only("policies") /\ F!PoliciesNext
  \/ Only("adjustments") /\ S!Next
  \/ Only("alerts") /\ S!AlertsNext
  \/ Only("drift") /\ S!DriftNext
  \/ Only("bulk") /\ B!BulkStep
  \/ Only("shopImports") /\ B!Next
  \/ Only("exports") /\ B!ExportsStep
  \/ Only("reports") /\ B!ReportNext

MCSpec == MCInit /\ [][MCNext]_mcVars

-----------------------------------------------------------------------------
(* Properties.                                                             *)

\* A buyer pays what was shown: the order adds up to the confirmed amount at
\* the prices that were sold, its cart and policies are the ones the buyer saw,
\* and the fee it paid can be explained later (Purchase, ShippingFees).
BuyerPaysWhatWasShown ==
  /\ focus = "purchase" => P!OrderAddsUp /\ P!ChargedAsConfirmed /\ P!OrderedAsSold
  /\ focus = "cart" => P!VersionNamesContents /\ P!TakesWhatWasBought
  /\ focus = "fees" => F!OneDefault /\ F!PaidFeeIsExplained
  /\ focus = "policies" => F!OrderUnderShownPolicies

\* Records are true: stock changed by hand is exact and checked, low stock is
\* announced, stock freed by a repair belonged to no living order
\* (StockAdjustments), a row of an import is applied once and as it was previewed,
\* an export is one moment of the ledger, and a report adds up and lists every
\* case once (BulkImport).
RecordsAreTrue ==
  /\ focus = "adjustments" => S!CountsAreExact /\ S!LargeChangesByTwo
  /\ focus = "alerts" => S!LowStockIsAnnounced
  /\ focus = "drift" => S!ReleasedOrderIsCancelled
  /\ focus = "bulk" => B!AppliedOnceAndRecorded /\ B!FinishedJobIsQuiet /\ B!DryRunHasFile
  /\ focus = "shopImports" => B!RowsRespectPreview
  /\ focus = "exports" => B!StatementIsSnapshot
  /\ focus = "reports" => B!ReportAddsUp /\ B!ListedOnce

=============================================================================
