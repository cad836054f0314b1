----------------------------- MODULE Storefront -----------------------------
(***************************************************************************)
(* Catalog's last-known-value cache of what other services own: a          *)
(* variant's stock (Inventory), units sold (Order) and a shop's name       *)
(* (Vendor).  A page prefers the live answer and refreshes the cache; when *)
(* the owner cannot be reached it shows the cached value, degraded.  Rows  *)
(* expire, stale rows are read again by a worker, and a change of stock    *)
(* drops its row: through Inventory's outbox, and the bus or HTTP.         *)
(*                                                                         *)
(* Rows do not touch each other: the model is of one row, of any kind.     *)
(* The clock ticks every 30 seconds for the stock and is slower for the    *)
(* others.  Nothing in the code ends a request that waits for a            *)
(* connection, so an answer may be stored long after it was read.          *)
(***************************************************************************)
EXTENDS Naturals, FiniteSets

CONSTANTS
  Facts,       \* the kinds of row: a subset of {"stock", "sold", "name"}
  Values,      \* what a fact can be; 0 is "nothing sold" and "not stocked"
  Readers,     \* storefront requests
  Reconciler,  \* ReconcileCache
  NoValue,     \* no value
  FreshFor, RefreshAfter,  \* ticks: how long a row is shown; when it is read again
  MaxLag,      \* bound: ticks from the owner's answer to its write
  MaxAttempts  \* of the outbox

VARIABLES
  fact,        \* the kind of row
  live,        \* the owner's value, NoValue when the owner does not know it
  ago,         \* for each value, the ticks since it was last true
  row,         \* the cached value, its age, and how late it was written
  reader,      \* Readers and the worker: the live answer on its way to the cache
  outbox,      \* Inventory's queued invalidation of the stock
  event        \* an invalidation on its way to Catalog

cacheVars == <<fact, live, ago, row, reader, outbox, event>>

NoRow == [value |-> NoValue, age |-> 0, lag |-> 0]
NotQueued == [queued |-> FALSE, attempts |-> 0]
Idle == [value |-> NoValue, ticks |-> 0]
Actors == Readers \cup {Reconciler}
Horizon == FreshFor + MaxLag + 1

CacheInit ==
  /\ fact \in Facts
  /\ live = 0
  /\ ago = [v \in Values |-> IF v = 0 THEN 0 ELSE Horizon]
  /\ row = NoRow
  /\ reader = [r \in Actors |-> Idle]
  /\ outbox = NotQueued /\ event = FALSE

-----------------------------------------------------------------------------
(* The owner, and Inventory's invalidation.                                *)

\* The trigger on the stock row queues the variant, due at once.
QueueStockCache == outbox' = IF fact = "stock" THEN [queued |-> TRUE, attempts |-> 0] ELSE outbox

\* Only a shop can be unknown to its owner.
Change(v) ==
  /\ v # live /\ (v = NoValue => fact = "name")
  /\ live' = v
  /\ ago' = IF v = NoValue THEN ago ELSE [ago EXCEPT ![v] = 0]
  /\ QueueStockCache
  /\ UNCHANGED <<fact, row, reader, event>>

\* The queued row stays locked while Catalog is told, so no change of stock
\* falls between the two; after MaxAttempts it waits for the next change.
SyncStock(told, answered) ==
  /\ outbox.queued /\ outbox.attempts < MaxAttempts
  /\ answered => told
  /\ event' = (event \/ told)
  /\ outbox' = IF answered THEN NotQueued ELSE [outbox EXCEPT !.attempts = @ + 1]
  /\ UNCHANGED <<fact, live, ago, row, reader>>

\* Delivered, perhaps again later.
StockChangedHandler(again) ==
  /\ event /\ event' = again
  /\ row' = NoRow
  /\ UNCHANGED <<fact, live, ago, reader, outbox>>

-----------------------------------------------------------------------------
(* Catalog's reads.                                                        *)

AnyAge == row.value

\* A row that is not too old to show; FreshFor ticks may begin meanwhile.
GetVariantStock == IF row.age <= FreshFor THEN row.value ELSE NoValue

\* A row's age counts from this write, however long ago its value was read.
UpsertVariantStock(answer) == row' = [value |-> answer.value, age |-> 0, lag |-> answer.ticks]

StaleIDs == row.value # NoValue /\ row.age >= RefreshAfter

Begin(r) == reader[r] = Idle /\ (r = Reconciler => StaleIDs)

Carry(r) == reader' = [reader EXCEPT ![r] = [value |-> live, ticks |-> 0]]

\* A variant that a good answer leaves out has no stock.
resolveVariantStock(r) == fact = "stock" /\ Carry(r)

\* A product that a good answer leaves out has no sales.
resolveQuantitySold(r) == fact = "sold" /\ Carry(r)

\* A shop that a good answer leaves out keeps its last known name.
resolveVendorNames(r) == fact = "name" /\ live # NoValue /\ Carry(r)

ReadLive(r) ==
  /\ Begin(r)
  /\ resolveVariantStock(r) \/ resolveQuantitySold(r) \/ resolveVendorNames(r)
  /\ UNCHANGED <<fact, live, ago, row, outbox, event>>

\* The answer is stored when the page gets to it; a failed write is only logged.
StoreAnswer(r, stored) ==
  /\ reader[r] # Idle
  /\ IF stored THEN UpsertVariantStock(reader[r]) ELSE UNCHANGED row
  /\ reader' = [reader EXCEPT ![r] = Idle]
  /\ UNCHANGED <<fact, live, ago, outbox, event>>

-----------------------------------------------------------------------------
Older(n) == IF n < Horizon THEN n + 1 ELSE n

Tick ==
  /\ \A r \in Actors : reader[r].ticks < MaxLag
  /\ ago' = [v \in Values |-> IF v = live THEN 0 ELSE Older(ago[v])]
  /\ row' = IF row = NoRow THEN NoRow ELSE [row EXCEPT !.age = Older(@)]
  /\ reader' = [r \in Actors |-> IF reader[r] = Idle THEN Idle ELSE [reader[r] EXCEPT !.ticks = @ + 1]]
  /\ UNCHANGED <<fact, live, outbox, event>>

CacheNext ==
  \/ \E v \in Values \cup {NoValue} : Change(v)
  \/ \E told, answered \in BOOLEAN : SyncStock(told, answered)
  \/ \E again \in BOOLEAN : StockChangedHandler(again)
  \/ \E r \in Actors : ReadLive(r) \/ \E stored \in BOOLEAN : StoreAnswer(r, stored)
  \/ Tick

CacheSpec == CacheInit /\ [][CacheNext]_cacheVars

-----------------------------------------------------------------------------
\* What a page may show while an owner is down was true not longer ago than a
\* row is kept and its writer took from the owner's answer to the write,
\* whichever requests overtook it, and whether or not the invalidation came
\* (storefront_cache_repository.go GetVariantStock, product_usecase.go
\* resolveVariantStock).  A slow writer's value is shown that much longer.
AnswersAreRecent == GetVariantStock # NoValue => ago[GetVariantStock] <= FreshFor + row.lag

-----------------------------------------------------------------------------
(***************************************************************************)
(* The pictures of a product: uploads to the object store, the rows that   *)
(* refer to them and the cleanup queue that deletes what nothing refers    *)
(* to.  An object is tracked before it is uploaded and attached later, in  *)
(* the product's transaction; the sweep takes the same row lock.           *)
(***************************************************************************)
CONSTANTS
  Objects,       \* object keys, one per upload request
  MaxMedia,      \* domain.MaxMediaItemsPerProduct
  MaxDeletes    \* failed deletions after which a key is parked


NoKey == "no object"

VARIABLES
  image,     \* the key in product_images
  media,     \* the keys in product_media
  upload,    \* each request: "unused", "tracked", "staged" or "ended"
  kind,      \* what each request uploads: "image" or "media"
  inBucket,    \* the keys the object store holds
  cleanup    \* catalog_object_cleanup: "none", "waiting" or "due", and attempts

picturesVars == <<image, media, upload, kind, inBucket, cleanup>>

Row(state) == [state |-> state, attempts |-> 0]

mediaSlot == Cardinality(media) < MaxMedia

\* UploadImage and UploadMedia up to the upload: the key is tracked on its own
\* connection before anything is stored.  A full gallery is refused early.
Track(o, k) ==
  /\ upload[o] = "unused" /\ (k = "media" => mediaSlot)
  /\ upload' = [upload EXCEPT ![o] = "tracked"]
  /\ kind' = [kind EXCEPT ![o] = k]
  /\ cleanup' = [cleanup EXCEPT ![o] = Row("waiting")]
  /\ UNCHANGED <<image, media, inBucket>>

Upload(o) ==
  /\ upload[o] = "tracked"
  /\ upload' = [upload EXCEPT ![o] = "staged"]
  /\ inBucket' = inBucket \cup {o}
  /\ UNCHANGED <<image, media, kind, cleanup>>

\* The request fails or the process dies, before or after the object is
\* stored: nothing undoes the upload but the tracked row.
Abandon(o) ==
  /\ upload[o] \in {"tracked", "staged"}
  /\ upload' = [upload EXCEPT ![o] = "ended"]
  /\ inBucket' \in {inBucket} \cup (IF upload[o] = "tracked" THEN {inBucket \cup {o}} ELSE {})
  /\ UNCHANGED <<image, media, kind, cleanup>>

Enqueue(key) == IF key = NoKey THEN cleanup ELSE [cleanup EXCEPT ![key] = Row("waiting")]

\* ReplaceForProduct, then the old key is queued in the same transaction.
attachImage(o) ==
  /\ upload[o] = "staged" /\ kind[o] = "image"
  /\ upload' = [upload EXCEPT ![o] = "ended"]
  /\ image' = o
  /\ cleanup' = Enqueue(image)
  /\ UNCHANGED <<media, kind, inBucket>>

\* The gallery's limit is checked again under the row lock.
attachMedia(o) ==
  /\ upload[o] = "staged" /\ kind[o] = "media" /\ mediaSlot
  /\ upload' = [upload EXCEPT ![o] = "ended"]
  /\ media' = media \cup {o}
  /\ UNCHANGED <<image, kind, inBucket, cleanup>>

deleteImage ==
  /\ image # NoKey
  /\ image' = NoKey
  /\ cleanup' = Enqueue(image)
  /\ UNCHANGED <<media, upload, kind, inBucket>>

\* 24 hours pass; no upload request lives that long.
CleanupDue(o) ==
  /\ cleanup[o].state = "waiting" /\ upload[o] \notin {"tracked", "staged"}
  /\ cleanup' = [cleanup EXCEPT ![o].state = "due"]
  /\ UNCHANGED <<image, media, upload, kind, inBucket>>

ReferencedAsImage(o) == o = image

Referenced(o) == o = image \/ o \in media

\* One candidate: deleted when nothing refers to it, counted as a failed
\* attempt when the store does not answer, and dropped from the queue when it
\* is referenced.  A deletion that timed out may have happened.
Sweep(o) ==
  /\ cleanup[o].state = "due" /\ cleanup[o].attempts < MaxDeletes
  /\ \/ /\ cleanup' = [cleanup EXCEPT ![o] = Row("none")]
        /\ inBucket' = IF Referenced(o) THEN inBucket ELSE inBucket \ {o}
     \/ /\ ~Referenced(o)
        /\ cleanup' = [cleanup EXCEPT ![o].attempts = @ + 1]
        /\ inBucket' \in {inBucket, inBucket \ {o}}
  /\ UNCHANGED <<image, media, upload, kind>>

\* An administrator resends a parked deletion.
Replay(o) ==
  /\ cleanup[o].attempts = MaxDeletes
  /\ cleanup' = [cleanup EXCEPT ![o].attempts = 0]
  /\ UNCHANGED <<image, media, upload, kind, inBucket>>

PicturesInit ==
  /\ image = NoKey /\ media = {} /\ inBucket = {}
  /\ upload = [o \in Objects |-> "unused"]
  /\ kind = [o \in Objects |-> "image"]
  /\ cleanup = [o \in Objects |-> Row("none")]

PicturesNext ==
  \/ deleteImage
  \/ \E o \in Objects :
       \/ \E k \in {"image", "media"} : Track(o, k)
       \/ Upload(o) \/ Abandon(o) \/ attachImage(o) \/ attachMedia(o)
       \/ CleanupDue(o) \/ Sweep(o) \/ Replay(o)

PicturesSpec == PicturesInit /\ [][PicturesNext]_picturesVars

\* Every picture a product refers to is in the object store, whatever uploads,
\* replaced images, sweeps and replayed deletions interleaved before.
AttachedIsStored == ({image} \ {NoKey}) \cup media \subseteq inBucket

-----------------------------------------------------------------------------
(***************************************************************************)
(* What Catalog tells Cart and Order may be sold: a snapshot of its        *)
(* products, then Vendor's live word on their shops, then on vacations.    *)
(* Each is a separate reading; products and shops change between them.     *)
(* Vendor can be out of reach at any call.                                 *)
(*                                                                         *)
(* One reading at a time, of any size; each shop has one product.  Prices  *)
(* and options are left out, as is the local copy a storefront page is     *)
(* filtered by (module Shops).                                             *)
(***************************************************************************)
CONSTANT ShopSet    \* the shops, and their products

VARIABLES
  shop,       \* ShopSet -> whether Vendor approves it, and whether it takes orders
  visible,    \* the shops whose product Catalog holds as approved and active
  read,       \* the reading under way
  seen        \* ShopSet -> what was true of it at some moment of the reading

factsVars == <<shop, visible, read, seen>>

NoRead == [kind |-> "none", step |-> "done", asked |-> {}, active |-> {}, todo |-> {}, paused |-> {}]

-----------------------------------------------------------------------------
(* Products and shops.                                                     *)

Paused(s) == shop[s].approved /\ ~shop[s].accepting

IsPubliclyVisible(s) == s \in visible

\* What holds of a shop and its product now.
Now(s) ==
  (IF IsPubliclyVisible(s) THEN {"visible"} ELSE {"hidden"})
    \cup (IF shop[s].approved THEN {"approved"} ELSE {"refused"})
    \cup (IF Paused(s) THEN {"paused"} ELSE {"not paused"})
    \cup (IF shop[s].approved /\ shop[s].accepting THEN {"open"} ELSE {})

FactsInit ==
  /\ shop = [s \in ShopSet |-> [approved |-> TRUE, accepting |-> TRUE]]
  /\ visible = ShopSet
  /\ read = NoRead
  /\ seen = [s \in ShopSet |-> {}]

Notice == seen' = [s \in ShopSet |-> IF s \in read.asked THEN seen[s] \cup Now(s)' ELSE seen[s]]

Moderate(s) ==
  /\ shop' = [shop EXCEPT ![s].approved = ~@] /\ UNCHANGED <<visible, read>> /\ Notice

Vacation(s) ==
  /\ shop' = [shop EXCEPT ![s].accepting = ~@] /\ UNCHANGED <<visible, read>> /\ Notice

ChangeProduct(s) ==
  /\ visible' = IF IsPubliclyVisible(s) THEN visible \ {s} ELSE visible \cup {s}
  /\ UNCHANGED <<shop, read>> /\ Notice

-----------------------------------------------------------------------------
(* A reading.                                                              *)

Step(step) == read' = [read EXCEPT !.step = step]

Unchanged == UNCHANGED <<shop, visible, seen>>

\* One consistent snapshot; shops are asked about only for what it shows.
Snapshot(ask, asked) ==
  /\ read.step \in {"done", "error"}
  /\ LET active == {s \in asked : IsPubliclyVisible(s)}
     IN  read' = [kind |-> ask, step |-> IF active = {} THEN "done" ELSE "approved",
                  asked |-> asked, active |-> active, todo |-> {}, paused |-> {}]
  /\ seen' = [s \in ShopSet |-> IF s \in asked THEN Now(s) ELSE {}]
  /\ UNCHANGED <<shop, visible>>

ReadCheckout(asked) == asked # {} /\ Snapshot("checkout", asked)

GetByIDForOwnerLookup(s) == Snapshot("lookup", {s})

Approved(S) == \A s \in S : shop[s].approved

\* All the shops in one call.  A refusal does not say which: a checkout asks
\* about each, a lookup knows.
AskApproved ==
  /\ read.step = "approved"
  /\ CASE Approved(read.active) -> Step("paused")
       [] ~Approved(read.active) /\ read.kind = "lookup" -> read' = [read EXCEPT !.step = "done", !.active = {}]
       [] OTHER -> read' = [read EXCEPT !.step = "each", !.todo = read.active]
  /\ Unchanged

AskEach(s) ==
  /\ read.step = "each" /\ s \in read.todo
  /\ LET active == IF Approved({s}) THEN read.active ELSE read.active \ {s}
     IN  read' = [read EXCEPT !.todo = @ \ {s}, !.active = active,
                  !.step = IF read.todo # {s} THEN "each" ELSE IF active = {} THEN "done" ELSE "paused"]
  /\ Unchanged

\* The shops on vacation, in one call: their products are not for sale.
HidePaused ==
  /\ read.step = "paused"
  /\ LET paused == {s \in read.active : Paused(s)}
     IN  read' = [read EXCEPT !.step = "done", !.active = @ \ paused, !.paused = paused]
  /\ Unchanged

markPausedShops == read.kind = "checkout" /\ HidePaused

LookupForServices == read.kind = "lookup" /\ HidePaused

GuessOpen == "done"
AnError == "error"

\* An outage is an error: nothing is guessed.
Outage == AnError

VendorUnreachable ==
  /\ read.step \in {"approved", "each", "paused"}
  /\ Step(Outage) /\ Unchanged

-----------------------------------------------------------------------------
FactsNext ==
  \/ \E s \in ShopSet :
       \/ Moderate(s) \/ Vacation(s) \/ ChangeProduct(s) \/ GetByIDForOwnerLookup(s) \/ AskEach(s)
  \/ \E asked \in SUBSET ShopSet : ReadCheckout(asked)
  \/ AskApproved \/ markPausedShops \/ LookupForServices \/ VendorUnreachable

FactsSpec == FactsInit /\ [][FactsNext]_factsVars

-----------------------------------------------------------------------------
\* Every word of an answer was true at some moment of the reading: a product
\* answered for sale was visible, its shop approved and not on vacation; one
\* answered not for sale was hidden or its shop was refused, and one answered
\* paused was on vacation.  An outage gives no answer (catalog
\* usecase/checkout.go ReadCheckout).
AnswersWereTrue ==
  read.kind # "none" /\ read.step = "done" =>
    \A s \in read.asked :
      CASE s \in read.active -> {"visible", "approved", "not paused"} \subseteq seen[s]
        [] s \in read.paused -> "paused" \in seen[s]
        [] OTHER -> {"hidden", "refused"} \cap seen[s] # {}

=============================================================================
