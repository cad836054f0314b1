----------------------------- MODULE BulkImport -----------------------------
(***************************************************************************)
(* Files of many rows: CSV imports, exports and, at the end, the business  *)
(* report.  They share no table; each has variables of its own.            *)
(*                                                                         *)
(* CSV imports of a shop (pkg/bulkimport).  A job is uploaded, checked in  *)
(* a dry run, confirmed, and applied row by row by two leased              *)
(* workers; a row's effect and its result are written in one transaction.  *)
(* Workers may crash, and a lease may end while its holder still runs.     *)
(***************************************************************************)
EXTENDS Naturals, FiniteSets, Integers, FiniteSetsExt

CONSTANTS Jobs, Rows,     \* uploads of one and the same file, and its rows
          Workers,        \* the loops apply-1 and apply-2
          MaxAttempts     \* MaxApplyAttempts, and the bound on claims

VARIABLES job,       \* [Jobs -> import_jobs row]
          row,       \* [Jobs -> [Rows -> import_rows row]]
          applied,   \* ghost: times the owner's use case committed a row
          worker,    \* [Workers -> the step each loop is in]
          dryRun,    \* attempts of dry runs still computing
          checking,  \* confirms that have read DuplicateFile, with their answer
          acked      \* ghost: jobs confirmed with the duplicate acknowledged

bulkVars == <<job, row, applied, worker, dryRun, checking, acked>>

JobRow == [status |-> "none", attempts |-> 0, leased |-> FALSE, confirmed |-> FALSE,
           file |-> "none", expires |-> FALSE]

NoRow == [status |-> "none", attempts |-> 0, leased |-> FALSE]

Idle == [at |-> "idle", job |-> "none", row |-> 0, attempts |-> 0]

Running == {"confirmed", "applying", "cancelling"}

FinalJob == {"completed", "cancelled", "file_invalid", "failed"}

FinalRow == {"succeeded", "needs_approval", "failed", "cancelled", "invalid", "unchanged"}

InFlight(j) == {r \in Rows : row[j][r].status = "applying"}

Waiting(j) == {r \in Rows : row[j][r].status = "valid"}

(***************************************************************************)
(* The dry run.                                                            *)
(***************************************************************************)
Upload(j) ==
    /\ job[j].status = "none"
    /\ job' = [job EXCEPT ![j].status = "uploaded", ![j].file = "stored"]
    /\ UNCHANGED <<row, applied, worker, dryRun, checking, acked>>

\* An uploaded job that is due, or one whose dry run lost its lease.
ClaimValidation(j) ==
    /\ job[j].status \in {"uploaded", "validating"} /\ ~job[j].leased
    /\ job[j].attempts < MaxAttempts
    /\ job' = [job EXCEPT ![j].status = "validating", ![j].leased = TRUE,
                          ![j].attempts = job[j].attempts + 1]
    /\ dryRun' = dryRun \cup {<<j, job[j].attempts + 1>>}
    /\ UNCHANGED <<row, applied, worker, checking, acked>>

\* The dry run of attempt n still owns the job.
OwnsDryRun(j, n) == job[j].status = "validating" /\ job[j].attempts = n

plan == [Rows -> {"valid", "invalid", "unchanged"}]

SavePreview(j, n) ==
    \E planned \in plan :
        /\ row' = [row EXCEPT ![j] = [r \in Rows |-> [NoRow EXCEPT !.status = planned[r]]]]
        /\ job' = [job EXCEPT ![j].status = "preview_ready", ![j].leased = FALSE, ![j].expires = TRUE]

FailValidation(j, n) ==
    /\ UNCHANGED row
    /\ \/ job' = [job EXCEPT ![j].status = "file_invalid", ![j].leased = FALSE, ![j].expires = TRUE]
       \/ job' = [job EXCEPT ![j].status = IF n >= MaxAttempts THEN "failed" ELSE "uploaded",
                             ![j].leased = FALSE, ![j].expires = n >= MaxAttempts]

\* The end of ValidateNext; a dry run without its lease writes nothing.
ValidateNext(j, n) ==
    /\ <<j, n>> \in dryRun
    /\ dryRun' = dryRun \ {<<j, n>>}
    /\ IF OwnsDryRun(j, n) THEN SavePreview(j, n) \/ FailValidation(j, n) ELSE UNCHANGED <<job, row>>
    /\ UNCHANGED <<applied, worker, checking, acked>>

(***************************************************************************)
(* Confirm locks its own job only: DuplicateFile is read before            *)
(* MarkConfirmed and other jobs of the same file may move in between.      *)
(***************************************************************************)
DuplicateFile(j) == \E other \in Jobs \ {j} : job[other].confirmed

Locked(j) == \E c \in checking : c[1] = j

Confirm(j) ==
    /\ job[j].status = "preview_ready" /\ ~Locked(j) /\ Waiting(j) # {}
    /\ checking' = checking \cup {<<j, DuplicateFile(j)>>}
    /\ UNCHANGED <<job, row, applied, worker, dryRun, acked>>

MarkConfirmed(j, duplicate, ack) ==
    /\ <<j, duplicate>> \in checking
    /\ checking' = checking \ {<<j, duplicate>>}
    /\ IF duplicate /\ ~ack THEN UNCHANGED <<job, acked>>
       ELSE /\ job' = [job EXCEPT ![j].status = "confirmed", ![j].confirmed = TRUE]
            /\ acked' = IF ack THEN acked \cup {j} ELSE acked
    /\ UNCHANGED <<row, applied, worker, dryRun>>

cancelWaiting(j) ==
    row' = [row EXCEPT ![j] = [r \in Rows |->
               IF row[j][r].status = "valid" THEN [row[j][r] EXCEPT !.status = "cancelled"] ELSE row[j][r]]]

\* Rows in flight finish first.
CancelStatus(j) == IF InFlight(j) = {} THEN "cancelled" ELSE "cancelling"

\* Cancel and AdminCancel.
cancel(j) ==
    /\ job[j].status \notin FinalJob \cup {"none", "cancelling"} /\ ~Locked(j)
    /\ cancelWaiting(j)
    /\ job' = [job EXCEPT ![j].status = CancelStatus(j), ![j].expires = TRUE, ![j].leased = FALSE]
    /\ UNCHANGED <<applied, worker, dryRun, checking, acked>>

Claimable(j, r) ==
    \/ row[j][r].status = "valid" /\ job[j].status \in {"confirmed", "applying"}
    \/ row[j][r].status = "applying" /\ ~row[j][r].leased

ClaimRow(w, j, r) ==
    /\ worker[w].at = "idle" /\ Claimable(j, r) /\ row[j][r].attempts < MaxAttempts
    /\ row' = [row EXCEPT ![j][r] = [status |-> "applying", attempts |-> row[j][r].attempts + 1,
                                     leased |-> TRUE]]
    /\ job' = IF job[j].status = "confirmed" THEN [job EXCEPT ![j].status = "applying"] ELSE job
    /\ worker' = [worker EXCEPT ![w] = [at |-> "apply", job |-> j, row |-> r,
                                        attempts |-> row[j][r].attempts + 1]]
    /\ UNCHANGED <<applied, dryRun, checking, acked>>

LockRowAny(c) == row[c.job][c.row].status \in {"applying", "succeeded"}

\* The lease is still ours: LockRow, and the condition of FinishRow.
LockRow(c) ==
    /\ row[c.job][c.row].status = "applying"
    /\ row[c.job][c.row].attempts = c.attempts

FinishRow(c, status) ==
    row' = IF LockRow(c)
           THEN [row EXCEPT ![c.job][c.row].status = status, ![c.job][c.row].leased = FALSE]
           ELSE row

goto(w, at) == worker' = [worker EXCEPT ![w].at = at]

release(w) == worker' = [worker EXCEPT ![w] = Idle]

\* The apply transaction: it commits effect and result together, or rolls
\* back with an error of one of three sorts.
ApplyNext(w) ==
    LET c == worker[w] IN
    /\ c.at = "apply"
    /\ \/ ~LockRow(c) /\ release(w) /\ UNCHANGED <<row, applied>>
       \/ /\ LockRow(c)
          /\ applied' = [applied EXCEPT ![c.job][c.row] = @ + 1]
          /\ \E status \in {"succeeded", "needs_approval"} : FinishRow(c, status)
          /\ goto(w, "finalize")
       \/ /\ LockRow(c)
          /\ \E error \in {"revoked", "refused", "unavailable"} : goto(w, error)
          /\ UNCHANGED <<row, applied>>
    /\ UNCHANGED <<job, dryRun, checking, acked>>

\* The error paths of ApplyNext, in statements of their own.
finish(w) ==
    LET c == worker[w] IN
    /\ c.at \in {"revoked", "refused", "unavailable"}
    /\ IF c.at = "unavailable" /\ c.attempts < MaxAttempts
       THEN /\ row' = IF LockRow(c) THEN [row EXCEPT ![c.job][c.row].leased = FALSE] ELSE row
            /\ release(w)
       ELSE FinishRow(c, "failed") /\ goto(w, IF c.at = "revoked" THEN "stop" ELSE "finalize")
    /\ UNCHANGED <<job, applied, dryRun, checking, acked>>

StopJob(w) ==
    /\ worker[w].at = "stop"
    /\ cancelWaiting(worker[w].job)
    /\ goto(w, "finalize")
    /\ UNCHANGED <<job, applied, dryRun, checking, acked>>

FinalizeJob(w) ==
    LET j == worker[w].job IN
    /\ worker[w].at = "finalize"
    /\ job' = IF job[j].status \in Running /\ Waiting(j) \cup InFlight(j) = {}
              THEN [job EXCEPT ![j].status = IF job[j].status = "cancelling" THEN "cancelled" ELSE "completed",
                               ![j].expires = TRUE]
              ELSE job
    /\ release(w)
    /\ UNCHANGED <<row, applied, dryRun, checking, acked>>

(***************************************************************************)
(* Leases, crashes and clean-up.                                           *)
(***************************************************************************)
LeaseEnds(j, r) ==
    /\ row[j][r].leased /\ row[j][r].attempts < MaxAttempts
    /\ row' = [row EXCEPT ![j][r].leased = FALSE]
    /\ UNCHANGED <<job, applied, worker, dryRun, checking, acked>>

DryRunLeaseEnds(j) ==
    /\ job[j].leased /\ job[j].attempts < MaxAttempts
    /\ job' = [job EXCEPT ![j].leased = FALSE]
    /\ UNCHANGED <<row, applied, worker, dryRun, checking, acked>>

\* A process dies in the middle of a row; the last claim does not crash.
Crash(w) ==
    /\ worker[w].at \notin {"idle", "stop", "finalize"} /\ worker[w].attempts < MaxAttempts
    /\ release(w)
    /\ UNCHANGED <<job, row, applied, dryRun, checking, acked>>

\* A process dies between a row's result and FinalizeJob.
CrashLate(w) ==
    /\ worker[w].at = "finalize"
    /\ release(w)
    /\ UNCHANGED <<job, row, applied, dryRun, checking, acked>>

ExpiredFiles == {j \in Jobs : job[j].file = "stored" /\ job[j].expires}

CleanupNext(j) ==
    /\ j \in ExpiredFiles
    /\ job' = [job EXCEPT ![j].file = "deleted"]
    /\ UNCHANGED <<row, applied, worker, dryRun, checking, acked>>

BulkInit ==
    /\ job = [j \in Jobs |-> JobRow] /\ row = [j \in Jobs |-> [r \in Rows |-> NoRow]]
    /\ applied = [j \in Jobs |-> [r \in Rows |-> 0]]
    /\ worker = [w \in Workers |-> Idle] /\ dryRun = {} /\ checking = {} /\ acked = {}

RowStep(w) ==
    \/ \E j \in Jobs, r \in Rows : ClaimRow(w, j, r)
    \/ ApplyNext(w) \/ finish(w) \/ StopJob(w) \/ FinalizeJob(w)

BulkStep ==
    \/ \E j \in Jobs :
          \/ Upload(j) \/ ClaimValidation(j) \/ \E n \in 1..MaxAttempts : ValidateNext(j, n)
          \/ Confirm(j) \/ \E duplicate, ack \in BOOLEAN : MarkConfirmed(j, duplicate, ack)
          \/ cancel(j) \/ DryRunLeaseEnds(j) \/ CleanupNext(j)
          \/ \E r \in Rows : LeaseEnds(j, r)
    \/ \E w \in Workers : RowStep(w) \/ Crash(w) \/ CrashLate(w)

BulkSpec == BulkInit /\ [][BulkStep]_bulkVars

(* A row is applied at most once, and its recorded result is the truth,    *)
(* whatever two workers, lost leases, retries and crashes do to it: the    *)
(* promise of ApplyNext, which applies in the transaction that records.    *)
AppliedOnceAndRecorded ==
    \A j \in Jobs, r \in Rows :
        applied[j][r] = IF row[j][r].status \in {"succeeded", "needs_approval"} THEN 1 ELSE 0

(* A finished job is finished: no row of a completed or cancelled job      *)
(* waits, is in flight or changes later, also when Cancel meets a row that *)
(* a worker holds.                                                         *)
FinishedJobIsQuiet ==
    \A j \in Jobs : job[j].status \in {"completed", "cancelled"} =>
        \A r \in Rows : row[j][r].status \in FinalRow \cup {"none"}

(* The uploaded file is there for every dry run that may still publish a   *)
(* preview: CleanupNext deletes only files whose retention has begun.      *)
DryRunHasFile ==
    \A j \in Jobs : job[j].status \in {"uploaded", "validating"} => job[j].file = "stored"

-----------------------------------------------------------------------------
(***************************************************************************)
(* What the rows of a shop's imports do (Catalog usecase/bulk_operations.go *)
(* for prices and new products, Inventory usecase/bulk_operations.go for   *)
(* received stock): a preview plans each row from what the shop has then,  *)
(* and each confirmed row is later applied through the editor's own        *)
(* operation, in one transaction with its result, while the shop goes on   *)
(* editing, selling and exporting.                                         *)
(*                                                                         *)
(* The jobs around the rows are the ones above.  One product, without      *)
(* SKUs until one is created, with one attribute in its category's         *)
(* template.  Parsing of numbers and text is left out.                     *)
(***************************************************************************)
CONSTANTS
  ShopRows,                \* rows of confirmed jobs
  ClientIds,           \* the vendor's own ids of new products
  Prices, Options,     \* amounts, and values of the attribute
  VariantPricing,      \* whether SKUs may differ in price
  MaxVersion, MaxStock \* bounds of the model

VARIABLES
  product,   \* its price, version and moderation status
  variant,   \* its SKU, once there is one
  options,   \* the attribute's values that can be chosen now
  products,  \* products created by imports
  refs,      \* product_import_refs: client ids in use
  stock,     \* the stock item's quantity, version, and receipt limit
  exported,  \* price lines of files the shop exported
  shopRow        \* Rows -> what was planned and what came of it

vars == <<product, variant, options, products, refs, stock, exported, shopRow>>

NoVersion == 0
NoShopRow == [state |-> "none", kind |-> "none", target |-> "none", amount |-> 0, old |-> 0,
          expected |-> NoVersion, id |-> "none", option |-> "none", over |-> NoVersion]

Plan(r, planned) ==
  /\ shopRow[r] = NoShopRow /\ shopRow' = [shopRow EXCEPT ![r] = planned]
  /\ UNCHANGED <<product, variant, options, products, refs, stock, exported>>

Result(r, state) == shopRow' = [shopRow EXCEPT ![r].state = state]

\* A conflict leaves everything but the row as it was.
staleRow(r) == Result(r, "preview_stale")

-----------------------------------------------------------------------------
(* Prices.                                                                 *)

Targets == IF variant.exists THEN {"sku", "product"} ELSE {"product"}
Current(target) == IF target = "sku" THEN variant.price ELSE product.price
VersionOf(target) == IF target = "sku" THEN variant.version ELSE product.version

\* One line for each price a buyer can pay.
PriceRows == IF variant.exists THEN {"sku"} ELSE {"product"}

ExportPrices ==
  \E target \in PriceRows :
    /\ exported' = exported \cup {[target |-> target, price |-> Current(target), version |-> VersionOf(target)]}
    /\ UNCHANGED <<product, variant, options, products, refs, stock, shopRow>>

\* The version of the file the shop worked from, if it gave one, must still
\* be the current one.
planPrice(r, target, amount, expected) ==
  /\ target \in Targets
  /\ (target = "sku" /\ ~VariantPricing => amount = product.price)
  /\ (target = "product" => ~variant.exists)
  /\ expected \in {NoVersion, VersionOf(target)}
  /\ Plan(r, [NoShopRow EXCEPT !.state = IF amount = Current(target) THEN "unchanged" ELSE "planned",
              !.kind = "price", !.target = target, !.amount = amount, !.old = Current(target),
              !.expected = VersionOf(target)])

\* What the shop uploads: a line of an exported file, edited, or one of its own.
PlanPrices(r, amount) ==
  \/ \E line \in exported : planPrice(r, line.target, amount, line.version)
  \/ \E target \in Targets : planPrice(r, target, amount, NoVersion)

\* A price change sends the product back to review.
Revised(price) == [product EXCEPT !.price = price, !.version = @ + 1, !.status = "draft"]

\* The product's row is locked from here on.
SameVersion(target, version) == VersionOf(target) = version

UpdateVariantPrice(amount, version) ==
  /\ SameVersion("sku", version) /\ (VariantPricing \/ amount = product.price)
  /\ variant' = IF amount = variant.price THEN variant ELSE [variant EXCEPT !.price = amount, !.version = @ + 1]
  /\ product' = IF amount = variant.price THEN product ELSE Revised(product.price)

UpdatePrice(amount, version) ==
  /\ SameVersion("product", version) /\ ~variant.exists
  /\ product' = IF amount = product.price THEN product ELSE Revised(amount)
  /\ UNCHANGED variant

ApplyPrice(r) ==
  LET in == shopRow[r]
      Update == IF in.target = "sku" THEN UpdateVariantPrice(in.amount, in.expected)
                ELSE UpdatePrice(in.amount, in.expected)
      fits == SameVersion(in.target, in.expected)
              /\ (in.target = "product" => ~variant.exists)
              /\ (in.target = "sku" => VariantPricing \/ in.amount = product.price)
  IN  /\ in.state = "planned" /\ in.kind = "price"
      /\ IF fits
         THEN /\ Update
              /\ shopRow' = [shopRow EXCEPT ![r].state = "succeeded", ![r].over = VersionOf(in.target)]
         ELSE staleRow(r) /\ UNCHANGED <<product, variant>>
      /\ UNCHANGED <<options, products, refs, stock, exported>>

-----------------------------------------------------------------------------
(* New products.                                                           *)

\* By value, as the category's template has it now.
importAttributes(option) == option \in options

ImportRefs(id) == id \in refs

PlanProduct(r, id, option) ==
  LET planned == [NoShopRow EXCEPT !.kind = "product", !.id = id, !.option = option]
  IN  Plan(r, [planned EXCEPT !.state = IF ImportRefs(id) THEN "already_imported"
                                        ELSE IF importAttributes(option) THEN "planned" ELSE "invalid_attribute"])

RefReplaced(id) == TRUE

\* Unique for each shop.
SaveImportRef(id) == id \notin refs

\* Creating it checks the attributes again; a taken id undoes the product too.
ApplyProduct(r) ==
  LET in == shopRow[r]
  IN  /\ in.state = "planned" /\ in.kind = "product"
      /\ IF in.option \in options /\ SaveImportRef(in.id)
         THEN /\ products' = products \cup {[id |-> in.id, row |-> r, option |-> in.option]}
              /\ refs' = refs \cup {in.id} /\ Result(r, "succeeded")
         ELSE /\ Result(r, IF in.option \in options THEN "already_imported" ELSE "invalid_attribute")
              /\ UNCHANGED <<products, refs>>
      /\ UNCHANGED <<product, variant, options, stock, exported>>

-----------------------------------------------------------------------------
(* Received stock: what a row adds, never what there is then.              *)

\* Catalog names the target, the stock records its item and version.
planReceipt(r, target, q) ==
  /\ target \in Targets /\ (target = "product" => ~variant.exists)
  /\ target = stock.of
  /\ Plan(r, [NoShopRow EXCEPT !.state = "planned", !.kind = "receipt", !.target = target, !.amount = q,
              !.old = stock.quantity, !.expected = stock.version])

\* A large receipt waits for the marketplace.
ApplyReceipt(r) ==
  LET in == shopRow[r]
  IN  /\ in.state = "planned" /\ in.kind = "receipt"
      /\ CASE stock.version # in.expected -> staleRow(r) /\ UNCHANGED stock
           [] stock.version = in.expected /\ in.amount > stock.limit -> Result(r, "needs_approval") /\ UNCHANGED stock
           [] OTHER -> /\ stock' = [stock EXCEPT !.quantity = @ + in.amount, !.version = @ + 1]
                       /\ shopRow' = [shopRow EXCEPT ![r].state = "succeeded", ![r].over = stock.version]
      /\ UNCHANGED <<product, variant, options, products, refs, exported>>

-----------------------------------------------------------------------------
(* Meanwhile.                                                              *)

\* The editor uses the same operations.
EditPrice(amount) ==
  /\ product.version < MaxVersion
  /\ IF variant.exists THEN variant.version < MaxVersion /\ UpdateVariantPrice(amount, variant.version)
     ELSE UpdatePrice(amount, product.version)
  /\ UNCHANGED <<options, products, refs, stock, exported, shopRow>>

CreateVariant(amount) ==
  /\ ~variant.exists /\ (VariantPricing \/ amount = product.price) /\ product.version < MaxVersion
  /\ variant' = [exists |-> TRUE, price |-> amount, version |-> 1]
  /\ product' = Revised(product.price)
  /\ UNCHANGED <<options, products, refs, stock, exported, shopRow>>

Approve ==
  /\ product.status = "draft" /\ product.version < MaxVersion
  /\ product' = [product EXCEPT !.status = "approved", !.version = @ + 1]
  /\ UNCHANGED <<variant, options, products, refs, stock, exported, shopRow>>

RetireOption(o) ==
  /\ o \in options /\ options' = options \ {o}
  /\ UNCHANGED <<product, variant, products, refs, stock, exported, shopRow>>

\* An order takes a unit, or the limit of the shop changes.
StockMoves ==
  /\ stock.version < MaxStock
  /\ \/ stock.quantity > 0 /\ stock' = [stock EXCEPT !.quantity = @ - 1, !.version = @ + 1]
     \/ \E limit \in 1..2 : limit # stock.limit /\ stock' = [stock EXCEPT !.limit = limit]
  /\ UNCHANGED <<product, variant, options, products, refs, exported, shopRow>>

-----------------------------------------------------------------------------
Init ==
  /\ product \in [price : Prices, version : {1}, status : {"approved"}]
  /\ variant = [exists |-> FALSE, price |-> 0, version |-> NoVersion]
  /\ options = Options /\ products = {} /\ refs = {} /\ exported = {}
  /\ stock = [of |-> "product", quantity |-> 1, version |-> 1, limit |-> 1]
  /\ shopRow = [r \in ShopRows |-> NoShopRow]

Next ==
  \/ ExportPrices \/ Approve \/ StockMoves
  \/ \E amount \in Prices : EditPrice(amount) \/ CreateVariant(amount)
  \/ \E o \in Options : RetireOption(o)
  \/ \E r \in ShopRows :
       \/ ApplyPrice(r) \/ ApplyProduct(r) \/ ApplyReceipt(r)
       \/ \E amount \in Prices : PlanPrices(r, amount)
       \/ \E id \in ClientIds, o \in Options : PlanProduct(r, id, o)
       \/ \E target \in {"sku", "product"}, q \in 1..2 : planReceipt(r, target, q)

Spec == Init /\ [][Next]_vars

-----------------------------------------------------------------------------
\* A row overwrites nothing that changed after its preview, whoever changed
\* it, and a client id creates one product however many jobs carry it
\* (bulk_operations.go PriceImport.Apply, ProductImport.Apply,
\* StockReceiptImport.Apply).
RowsRespectPreview ==
  /\ \A r \in ShopRows : shopRow[r].over # NoVersion => shopRow[r].over = shopRow[r].expected
  /\ \A p, q \in products : p.id = q.id => p = q

-----------------------------------------------------------------------------
(***************************************************************************)
(* Files a vendor asks for: statement exports (Payment) and catalogue      *)
(* exports (pkg/bulkimport).  A request is queued, a leased worker writes  *)
(* the file, and it is removed after its retention.  A statement is a      *)
(* snapshot of the ledger sealed by a checksum before the first upload; a  *)
(* catalogue export reads the live data of the attempt that succeeds.      *)
(*                                                                         *)
(* A worker's time-out (2 min) is shorter than its lease (3 and 5 min), so *)
(* a lease only ends after its worker has stopped.                         *)
(***************************************************************************)
CONSTANTS Statements, Catalogues,   \* ids of the two sorts of export
          MaxExportAttempts,              \* attempts before an export fails
          MaxLedger, MaxEncoder     \* bounds: ledger growth, deploys

Files == Statements \cup Catalogues

VARIABLES file,      \* [Files -> the export's row]
          object,    \* [Files -> content stored under the export's key]
          writer,    \* [Files -> the step its worker is in]
          ledger,    \* entries the data has now
          encoder    \* version of the CSV encoder deployed

exportVars == <<file, object, writer, ledger, encoder>>

Nothing == <<0, 0>>   \* no content: <<entries, encoder>> otherwise

NoExport == [status |-> "none", attempts |-> 0, snapshot |-> 0, checksum |-> Nothing, expired |-> FALSE]

LedgerGrows ==
    /\ ledger < MaxLedger
    /\ ledger' = ledger + 1
    /\ UNCHANGED <<file, object, writer, encoder>>

Deploy ==
    /\ encoder < MaxEncoder
    /\ encoder' = encoder + 1
    /\ UNCHANGED <<file, object, writer, ledger>>

\* The rows Read sees are stored with the request.
SaveExport(f) == [NoExport EXCEPT !.status = "pending", !.snapshot = ledger]

\* One row per idempotency key, in either service.
CreateStatementExport(f) ==
    /\ f \in Statements /\ file[f].status = "none"
    /\ file' = [file EXCEPT ![f] = SaveExport(f)]
    /\ UNCHANGED <<object, writer, ledger, encoder>>

CreateExport(f) ==
    /\ f \in Catalogues /\ file[f].status = "none"
    /\ file' = [file EXCEPT ![f] = [NoExport EXCEPT !.status = "pending"]]
    /\ UNCHANGED <<object, writer, ledger, encoder>>

\* A statement is claimed five times at most and not after it expired.
MayClaim(f) ==
    /\ file[f].status \in {"pending", "processing"} /\ writer[f] = "idle"
    /\ f \in Statements => file[f].attempts < MaxExportAttempts /\ ~file[f].expired

ClaimExport(f) ==
    /\ MayClaim(f)
    /\ file[f].attempts < MaxExportAttempts        \* bound for catalogue exports
    /\ file' = [file EXCEPT ![f].status = "processing", ![f].attempts = @ + 1]
    /\ writer' = [writer EXCEPT ![f] = "writing"]
    /\ UNCHANGED <<object, ledger, encoder>>

\* StreamExport over the stored rows, with the encoder of this process.
Content(f) == <<file[f].snapshot, encoder>>

SealAny(f) == TRUE

SealExport(f) == file[f].checksum \in {Nothing, Content(f)}

\* upload seals the checksum, then stores the object.
upload(f) ==
    /\ f \in Statements /\ writer[f] = "writing" /\ SealExport(f)
    /\ file' = [file EXCEPT ![f].checksum = Content(f)]
    /\ writer' = [writer EXCEPT ![f] = "sealed"]
    /\ UNCHANGED <<object, ledger, encoder>>

PutStatement(f) ==
    /\ writer[f] = "sealed"
    /\ object' = [object EXCEPT ![f] = file[f].checksum]
    /\ writer' = [writer EXCEPT ![f] = "stored"]
    /\ UNCHANGED <<file, ledger, encoder>>

writeExport(f) ==
    /\ f \in Catalogues /\ writer[f] = "writing"
    /\ object' = [object EXCEPT ![f] = <<ledger, encoder>>]
    /\ writer' = [writer EXCEPT ![f] = "stored"]
    /\ UNCHANGED <<file, ledger, encoder>>

\* The attempt ends well, fails for good (catalogue exports: the requester
\* lost access, the data is too large) or fails and is queued again.
Finish(f, status) ==
    /\ file' = [file EXCEPT ![f].status = status]
    /\ writer' = [writer EXCEPT ![f] = "idle"]
    /\ UNCHANGED <<object, ledger, encoder>>

Retry(f) == IF file[f].attempts >= MaxExportAttempts THEN "failed" ELSE "pending"

ProcessExport(f) ==
    /\ f \in Statements /\ writer[f] # "idle"
    /\ (writer[f] = "stored" /\ Finish(f, "ready")) \/ Finish(f, Retry(f))

ExportNext(f) ==
    /\ f \in Catalogues /\ writer[f] # "idle"
    /\ (writer[f] = "stored" /\ Finish(f, "ready")) \/ Finish(f, Retry(f)) \/ Finish(f, "failed")

\* The process dies; the last attempt of a catalogue export does not (bound).
WorkerCrash(f) ==
    /\ writer[f] # "idle" /\ (f \in Catalogues => file[f].attempts < MaxExportAttempts)
    /\ writer' = [writer EXCEPT ![f] = "idle"]
    /\ UNCHANGED <<file, object, ledger, encoder>>

RetentionEnds(f) ==
    /\ file[f].status # "none" /\ ~file[f].expired
    /\ f \in Catalogues => file[f].status = "ready"
    /\ file' = [file EXCEPT ![f].expired = TRUE]
    /\ UNCHANGED <<object, writer, ledger, encoder>>

\* A crashed last attempt is made terminal by the clean-up.
FailCrashed(f) ==
    /\ f \in Statements /\ file[f].status = "processing" /\ file[f].attempts >= MaxExportAttempts
    /\ writer[f] = "idle"
    /\ file' = [file EXCEPT ![f].status = "failed"]
    /\ UNCHANGED <<object, writer, ledger, encoder>>

ExpiredExport(f) == file[f].expired /\ file[f].status # "expired" /\ writer[f] = "idle"

\* cleanup: the object is deleted first, then the row is marked.
cleanup(f) ==
    /\ ExpiredExport(f) /\ object[f] # Nothing
    /\ object' = [object EXCEPT ![f] = Nothing]
    /\ UNCHANGED <<file, writer, ledger, encoder>>

MarkExpired(f) ==
    /\ ExpiredExport(f) /\ object[f] = Nothing
    /\ file' = [file EXCEPT ![f].status = "expired"]
    /\ UNCHANGED <<object, writer, ledger, encoder>>

ExportsInit ==
    /\ file = [f \in Files |-> NoExport] /\ object = [f \in Files |-> Nothing]
    /\ writer = [f \in Files |-> "idle"] /\ ledger = 1 /\ encoder = 1

WorkerStep(f) ==
    ClaimExport(f) \/ upload(f) \/ PutStatement(f) \/ writeExport(f) \/ ProcessExport(f) \/ ExportNext(f)

CleanupStep(f) == FailCrashed(f) \/ cleanup(f) \/ MarkExpired(f)

ExportsStep ==
    \/ \E f \in Files : CreateStatementExport(f) \/ CreateExport(f) \/ WorkerStep(f) \/ WorkerCrash(f) \/ RetentionEnds(f) \/ CleanupStep(f)
    \/ LedgerGrows \/ Deploy

ExportsSpec == ExportsInit /\ [][ExportsStep]_exportVars

(* The file a vendor downloads holds the ledger as it was when asked for,  *)
(* in the bytes first sealed: no retry, crash, later posting or deploy of  *)
(* another encoder replaces them (SaveExport, SealExport).                 *)
StatementIsSnapshot ==
    \A f \in Statements :
        /\ object[f] # Nothing => object[f] = file[f].checksum /\ object[f][1] = file[f].snapshot
        /\ file[f].status = "ready" /\ ~file[f].expired => object[f] # Nothing

----------------------------------------------------------------------------
(***************************************************************************)
(* The operational business report.  Order, Payment and Shipment each      *)
(* compute their own figures in several statements of one snapshot, the    *)
(* Admin service shows what they answered, and a drilldown later lists the *)
(* ids behind one figure at the report's cutoff, page by page.             *)
(*                                                                         *)
(* The owners share no table, so a behaviour follows one of them.  Amounts *)
(* are one per row: a sum of money is a count.                             *)
(***************************************************************************)
CONSTANTS Orders,      \* parent orders, numbered
          Packages,    \* their vendor orders, numbered
          OrderOf, ShopOf,
          MaxTime,     \* bound on the clock
          DayLength,   \* ticks of one business day
          LateAfter,   \* LateHandoff
          PageLimit,   \* rows of a drilldown page
          MaxChanges   \* bound on the rows written

ReportedShops == {ShopOf[p] : p \in Packages}
Everyone == 0          \* no vendor_id: the whole marketplace
Times == 0..MaxTime    \* 0: not yet
ReportOwners == {"order", "payment", "shipment"}
DefinitionVersion == "v1"
Versions == {"v1", "v2"}    \* an owner may be deployed later or earlier

Ranges == {r \in [from : 1..MaxTime, to : 2..(MaxTime + 1), shop : ReportedShops \cup {Everyone}] :
             r.from < r.to}

VARIABLES db,        \* the owner's tables
          now, changes,
          owner,     \* the owner this behaviour follows
          range,     \* the period and scope asked for
          phase,     \* "idle", "begun", "totals", "series", "answered", "over"
          snap,      \* the report's snapshot
          asOf,      \* its time
          totals, series, ranking,
          panel,     \* "none", "shown", "unavailable"
          drill      \* the drilldown under way

reportVars == <<db, now, changes, owner, range, phase, snap, asOf, totals, series, ranking, panel, drill>>

NotPlaced == [at |-> 0, checkout |-> "preparing", paid |-> FALSE]
NoParcel == [at |-> 0, status |-> "none", shipped |-> 0, delivered |-> 0]

Empty == [orders |-> [o \in Orders |-> NotPlaced],
          parts |-> [p \in Packages |-> [status |-> "pending_payment", returned |-> FALSE]],
          captured |-> [o \in Orders |-> 0],
          refunded |-> [o \in Orders |-> 0],
          ledger |-> [p \in Packages |-> [sale |-> 0, refund |-> 0, payout |-> 0]],
          parcels |-> [p \in Packages |-> NoParcel]]

Nobody == [metric |-> "none", at |-> 0, id |-> 0, seen |-> [x \in {} |-> 0], over |-> FALSE]

ReportInit ==
    /\ db = Empty /\ now = 1 /\ changes = 0
    /\ owner \in ReportOwners /\ range \in Ranges
    /\ phase = "idle" /\ snap = Empty /\ asOf = 0
    /\ totals = <<>> /\ series = <<>> /\ ranking = <<>>
    /\ panel = "none" /\ drill = Nobody

-----------------------------------------------------------------------------
(* The owners' tables go on changing. *)

Write(o) ==
    /\ owner = o /\ changes < MaxChanges /\ changes' = changes + 1
    /\ UNCHANGED <<now, owner, range, phase, snap, asOf, totals, series, ranking, panel, drill>>

CreateCheckout(o) ==
    /\ db.orders[o].at = 0 /\ Write("order")
    /\ db' = [db EXCEPT !.orders[o].at = now]

SetCheckoutState(o, s) ==
    /\ db.orders[o].at # 0 /\ db.orders[o].checkout = "preparing" /\ Write("order")
    /\ db' = [db EXCEPT !.orders[o].checkout = s]

MarkPaid(o) ==
    /\ db.orders[o].checkout = "ready" /\ ~db.orders[o].paid /\ Write("order")
    /\ db' = [db EXCEPT !.orders[o].paid = TRUE,
                        !.parts = [p \in Packages |-> IF OrderOf[p] = o /\ @[p].status # "cancelled"
                                                      THEN [@[p] EXCEPT !.status = "paid"] ELSE @[p]]]

\* The order's later life (Orders), as far as the figures tell it apart.
MovePart(p) ==
    /\ db.orders[OrderOf[p]].checkout = "ready" /\ Write("order")
    /\ \/ /\ db.parts[p].status \in {"pending_payment", "paid"}
          /\ db' = [db EXCEPT !.parts[p].status = "cancelled"]
       \/ /\ db.parts[p].status = "paid"
          /\ db' = [db EXCEPT !.parts[p].status = "shipped"]
       \/ /\ db.parts[p].status = "shipped"
          /\ db' = [db EXCEPT !.parts[p].returned = ~@]

Capture(o) ==
    /\ db.captured[o] = 0 /\ Write("payment")
    /\ db' = [db EXCEPT !.captured[o] = now]

ConfirmRefund(o) ==
    /\ db.captured[o] # 0 /\ db.refunded[o] = 0 /\ Write("payment")
    /\ db' = [db EXCEPT !.refunded[o] = now]

AddLedgerEntry(p, kind) ==
    /\ db.ledger[p][kind] = 0 /\ Write("payment")
    /\ db' = [db EXCEPT !.ledger[p][kind] = now]

MoveParcel(p) ==
    /\ Write("shipment")
    /\ \/ /\ db.parcels[p].at = 0
          /\ db' = [db EXCEPT !.parcels[p].at = now, !.parcels[p].status = "pending"]
       \/ /\ db.parcels[p].status = "pending"
          /\ \/ db' = [db EXCEPT !.parcels[p].status = "cancelled"]
             \/ db' = [db EXCEPT !.parcels[p].status = "shipped", !.parcels[p].shipped = now]
       \/ /\ db.parcels[p].status = "shipped"
          /\ \/ db' = [db EXCEPT !.parcels[p].status = "lost"]
             \/ db' = [db EXCEPT !.parcels[p].status = "delivered", !.parcels[p].delivered = now]

Tick ==
    /\ now < MaxTime /\ now' = now + 1
    /\ UNCHANGED <<db, changes, owner, range, phase, snap, asOf, totals, series, ranking, panel, drill>>

-----------------------------------------------------------------------------
(* The cohorts and the figures, in the tables t at the cutoff c. *)

InPeriod(at, c) == at # 0 /\ range.from <= at /\ at < range.to /\ at <= c
InScope(p) == range.shop \in {Everyone, ShopOf[p]}

orderCohort(t, c) ==
    {p \in Packages : LET o == t.orders[OrderOf[p]]
                      IN o.checkout = "ready" /\ InPeriod(o.at, c) /\ InScope(p)}

Paid(t, p) == t.orders[OrderOf[p]].paid \/ t.parts[p].status \in {"paid", "shipped"}

orderFigure(t, c, m) ==
    LET vo == orderCohort(t, c)
    IN CASE m = "placed_orders" -> {OrderOf[p] : p \in vo}
         [] m = "vendor_orders" -> vo
         [] m = "paid_vendor_orders" -> {p \in vo : Paid(t, p)}
         [] m = "awaiting_fulfillment" -> {p \in vo : t.parts[p].status = "paid"}
         [] m = "cancelled" -> {p \in vo : t.parts[p].status = "cancelled"}
         [] m = "paid_cancelled" -> {p \in vo : t.parts[p].status = "cancelled" /\ Paid(t, p)}
         [] m = "returned" -> {p \in vo : Paid(t, p) /\ t.parts[p].returned}

ledgerInPeriod(t, c, kind) ==
    {p \in Packages : ShopOf[p] = range.shop /\ InPeriod(t.ledger[p][kind], c)}

\* A capture pays for every shop: a shop's figures are its ledger entries.
paymentFigure(t, c, m) ==
    IF range.shop = Everyone
    THEN CASE m = "captured" -> {o \in Orders : InPeriod(t.captured[o], c)}
           [] m = "refunded" -> {o \in Orders : InPeriod(t.refunded[o], c)}
    ELSE CASE m = "refunded" -> ledgerInPeriod(t, c, "refund")
           [] m = "settled_sales" -> ledgerInPeriod(t, c, "sale")
           [] m = "paid_out" -> ledgerInPeriod(t, c, "payout")

shipmentCohort(t, c) == {p \in Packages : InPeriod(t.parcels[p].at, c) /\ InScope(p)}

Late(x, c) ==
    x.status # "cancelled" /\ (IF x.shipped # 0 THEN x.shipped ELSE c) > x.at + LateAfter

shipmentFigure(t, c, m) ==
    LET s == shipmentCohort(t, c)
    IN CASE m = "fulfillable" -> s
         [] m = "handed_off" -> {p \in s : t.parcels[p].shipped # 0}
         [] m = "late_handoff" -> {p \in s : Late(t.parcels[p], c)}
         [] m = "delivered" -> {p \in s : t.parcels[p].delivered # 0}
         [] m = "lost" -> {p \in s : t.parcels[p].status = "lost"}
         [] m = "cancelled" -> {p \in s : t.parcels[p].status = "cancelled"}

orderMetrics == {"placed_orders", "vendor_orders", "paid_vendor_orders", "cancelled",
                 "paid_cancelled", "returned", "awaiting_fulfillment"}
paymentMetrics == IF range.shop = Everyone THEN {"captured", "refunded"}
                  ELSE {"refunded", "settled_sales", "paid_out"}
shipmentMetrics == {"fulfillable", "handed_off", "late_handoff", "delivered", "lost", "cancelled"}

Metrics == CASE owner = "order" -> orderMetrics
             [] owner = "payment" -> paymentMetrics
             [] owner = "shipment" -> shipmentMetrics

Figure(t, c, m) == CASE owner = "order" -> orderFigure(t, c, m)
                     [] owner = "payment" -> paymentFigure(t, c, m)
                     [] owner = "shipment" -> shipmentFigure(t, c, m)

\* When the row x of the figure m was recorded.
RecordedAt(t, m, x) ==
    CASE owner = "order" -> t.orders[IF m = "placed_orders" THEN x ELSE OrderOf[x]].at
      [] owner = "shipment" -> t.parcels[x].at
      [] owner = "payment" /\ m = "captured" -> t.captured[x]
      [] owner = "payment" /\ m = "settled_sales" -> t.ledger[x].sale
      [] owner = "payment" /\ m = "paid_out" -> t.ledger[x].payout
      [] owner = "payment" /\ m = "refunded" ->
            IF range.shop = Everyone THEN t.refunded[x] ELSE t.ledger[x].refund

-----------------------------------------------------------------------------
(* The report: statements one after the other, in one snapshot. *)

Live == db
Snapshot == snap

Asked == UNCHANGED <<db, now, changes, owner, range, drill>>

\* What is recorded after the snapshot has a later time.
Begin ==
    /\ phase = "idle" /\ phase' = "begun" /\ now < MaxTime
    /\ snap' = db /\ asOf' = now /\ now' = now + 1
    /\ UNCHANGED <<db, changes, owner, range, drill, totals, series, ranking, panel>>

Totals ==
    /\ phase = "begun" /\ phase' = "totals"
    /\ totals' = [m \in Metrics |-> Cardinality(Figure(Snapshot, asOf, m))]
    /\ Asked /\ UNCHANGED <<snap, asOf, series, ranking, panel>>

\* The figures the series splits by business day.
inSeries == {"placed_orders", "vendor_orders", "captured", "refunded", "fulfillable",
             "handed_off"} \cap Metrics

Days == 0..(MaxTime \div DayLength)

Series ==
    /\ phase = "totals" /\ phase' = "series"
    /\ series' = [m \in inSeries |-> [d \in Days |->
                    Cardinality({x \in Figure(Snapshot, asOf, m) :
                                   RecordedAt(Snapshot, m, x) \div DayLength = d})]]
    /\ Asked /\ UNCHANGED <<snap, asOf, totals, ranking, panel>>

\* Order ranks the shops of a marketplace report.
Ranks == owner = "order" /\ range.shop = Everyone

Answer ==
    /\ phase = "series" /\ phase' = "answered"
    /\ ranking' = IF Ranks
                  THEN [s \in ReportedShops |-> [m \in {"vendor_orders", "paid_vendor_orders", "cancelled", "returned"} |->
                          Cardinality({p \in Figure(Snapshot, asOf, m) : ShopOf[p] = s})]]
                  ELSE <<>>
    /\ snap' = Empty
    /\ Asked /\ UNCHANGED <<asOf, totals, series, panel>>

\* The Admin service shows an answer of its own definition version; an owner
\* that refused, was late or answers another version is null.
BusinessReport(v) ==
    /\ phase = "answered" /\ phase' = "over"
    /\ panel' = IF v = DefinitionVersion THEN "shown" ELSE "unavailable"
    /\ Asked /\ UNCHANGED <<snap, asOf, totals, series, ranking>>

Timeout ==
    /\ phase \in {"begun", "totals", "series"} /\ phase' = "over" /\ panel' = "unavailable"
    /\ totals' = <<>> /\ series' = <<>> /\ snap' = Empty
    /\ Asked /\ UNCHANGED <<asOf, ranking>>

-----------------------------------------------------------------------------
(* The drilldown: a page per request, newest first, from the live tables. *)

\* A shop's captured share is refused, its ledger lists refunds only.
DrillMetrics == IF owner = "payment" THEN {"captured", "refunded"} \cap paymentMetrics ELSE Metrics

ParseDrilldown(m) ==
    /\ panel = "shown" /\ drill.metric = "none" /\ m \in DrillMetrics
    /\ drill' = [metric |-> m, at |-> asOf + 1, id |-> 0,
                 seen |-> [x \in Orders \cup Packages |-> 0], over |-> FALSE]
    /\ UNCHANGED <<db, now, changes, owner, range, phase, snap, asOf, totals, series, ranking, panel>>

\* (at, id) < cursor
Before(at, id) == at < drill.at \/ (at = drill.at /\ id < drill.id)
BeforeOrAt(at, id) == at < drill.at \/ (at = drill.at /\ id <= drill.id)
AfterCursor(at, id) == Before(at, id)

Drill ==
    /\ drill.metric # "none" /\ ~drill.over
    /\ LET m    == drill.metric
           at(x) == RecordedAt(Live, m, x)
           rest == {x \in Figure(Live, asOf, m) : AfterCursor(at(x), x)}
           newer(x, y) == at(x) > at(y) \/ (at(x) = at(y) /\ x > y)
           page == {x \in rest : Cardinality({y \in rest : newer(y, x)}) < PageLimit}
           last == CHOOSE x \in page : \A y \in page : x = y \/ newer(y, x)
       IN drill' = [drill EXCEPT !.seen = [x \in DOMAIN @ |-> @[x] + IF x \in page THEN 1 ELSE 0],
                                 !.at = IF rest = page THEN @ ELSE at(last),
                                 !.id = IF rest = page THEN @ ELSE last,
                                 !.over = rest = page]
    /\ UNCHANGED <<db, now, changes, owner, range, phase, snap, asOf, totals, series, ranking, panel>>

ReportNext ==
    \/ \E o \in Orders : CreateCheckout(o) \/ MarkPaid(o) \/ Capture(o) \/ ConfirmRefund(o)
    \/ \E o \in Orders, s \in {"ready", "failed"} : SetCheckoutState(o, s)
    \/ \E p \in Packages : MovePart(p) \/ MoveParcel(p)
    \/ \E p \in Packages, k \in {"sale", "refund", "payout"} : AddLedgerEntry(p, k)
    \/ Tick \/ Begin \/ Totals \/ Series \/ Answer \/ Timeout
    \/ \E v \in Versions : BusinessReport(v)
    \/ \E m \in orderMetrics \cup shipmentMetrics \cup {"captured", "refunded"} : ParseDrilldown(m)
    \/ Drill

ReportSpec == ReportInit /\ [][ReportNext]_reportVars

-----------------------------------------------------------------------------
\* A report shown agrees with itself whatever is written while its
\* statements run (bizreport.Snapshot): the days and the shops of the ranking
\* add up to the totals, and no rate has a numerator above its denominator.
ReportAddsUp ==
    panel = "shown" =>
        /\ \A m \in inSeries : MapThenSumSet(LAMBDA d : series[m][d], Days) = totals[m]
        /\ Ranks => \A m \in DOMAIN ranking[CHOOSE s \in ReportedShops : TRUE] :
                       MapThenSumSet(LAMBDA s : ranking[s][m], ReportedShops) = totals[m]
        /\ owner = "order" => /\ totals["paid_cancelled"] <= totals["paid_vendor_orders"]
                              /\ totals["returned"] <= totals["paid_vendor_orders"]
        /\ owner = "shipment" => totals["late_handoff"] + totals["cancelled"] <= totals["fulfillable"]

\* A drilldown lists no row twice while rows come, go and move between its
\* pages (NewPage, CursorArgs).
ListedOnce == \A x \in DOMAIN drill.seen : drill.seen[x] <= 1

=============================================================================
