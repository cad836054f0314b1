------------------------------ MODULE Catalog ------------------------------
(***************************************************************************)
(* A product of the Catalog service: the vendor's edits, the moderation    *)
(* decisions, and the fence that keeps Order from selling it at a version  *)
(* that is no longer visible (product_status_outbox ->                     *)
(* product_sale_status).                                                   *)
(*                                                                         *)
(* Every use case runs in one transaction that locks the product row, so   *)
(* each is one action; purchase quotes, status deliveries and orders are   *)
(* separate steps that interleave with them.  The text of the content is   *)
(* left out, its price, SKUs and picture stay: an edit of any of them      *)
(* takes the same path.  Uploads and the object store are modelled in      *)
(* CatalogPictures, templates and categories in CatalogTemplates, the      *)
(* shop's own permission to sell in Shops.                                 *)
(***************************************************************************)
EXTENDS Naturals, FiniteSets

CONSTANTS
  Prices,           \* positive amounts
  Variants,         \* the SKUs the product may get
  Pictures,         \* what the product's pictures may show
  VariantPricing,   \* the capability flag VARIANT_PRICING
  MaxAttempts,      \* attempts after which a delivery is parked
  MaxVersion,       \* bound on the versions a behaviour explores
  MaxInFlight       \* bound on the status messages under way at once

NoPrice == 0
NoPicture == "no picture"
NoSKU == "no SKU"
NoRow == MaxAttempts + 1      \* nothing queued in the status outbox
NoQuote == [version |-> 0]

VARIABLES
  product,   \* the products row
  sku,       \* product_variants: price and price_version, NoPrice if absent
  image,     \* the picture in product_images
  outbox,    \* product_status_outbox: NoRow or the attempts made
  bus,       \* status messages on their way to Order
  sale,      \* Order's product_sale_status row
  told,      \* the newest version Order has been told of
  quote,     \* the purchase quote a checkout is working with
  sold,      \* the order lines created from quotes
  approved   \* the content an administrator approved last

vars == <<product, sku, image, outbox, bus, sale, told, quote, sold, approved>>
fence == <<bus, sale, told, quote, sold>>

Content == [price |-> product.price, sku |-> sku, image |-> image]

IsPubliclyVisible == product.status = "approved" /\ product.active

CanTransition(from, to) ==
  \/ from \in {"draft", "rejected"} /\ to = "pending_review"
  \/ from = "pending_review" /\ to \in {"approved", "rejected"}

HasVariants == \E v \in Variants : sku[v].price # NoPrice

----------------------------------------------------------------------------
(* The row and its triggers: any change of the row bumps the version and   *)
(* queues a fresh status delivery.                                         *)

Changed(p, by) == [p EXCEPT !.version = @ + by]

Save(p) ==
  /\ p.version <= MaxVersion
  /\ product' = p
  /\ outbox' = IF p.version = product.version THEN outbox ELSE 0

reviseNot(p) == p

revise(p) == IF p.status = "draft" THEN p ELSE Changed([p EXCEPT !.status = "draft"], 1)

UpdateStatus(to) == Save(Changed([product EXCEPT !.status = to], 1))

ValidateProductInput(price) == price > 0

Create(price) ==
  /\ product.status = "none"
  /\ ValidateProductInput(price)
  /\ product' = [status |-> "draft", active |-> TRUE, price |-> price, version |-> 1, enforced |-> 0]
  /\ outbox' = 0
  /\ UNCHANGED <<sku, image, fence, approved>>

\* With variant pricing off the product's price is the one price: every SKU
\* follows it, and each SKU that changes bumps the version again.
SyncedSKUs(price) ==
  [v \in Variants |-> IF sku[v].price \in {NoPrice, price} \/ VariantPricing
                      THEN sku[v] ELSE [price |-> price, pv |-> sku[v].pv + 1]]

UpdateContent(price, version) ==
  /\ product.status # "none" /\ version = product.version
  /\ ValidateProductInput(price)
  /\ LET synced == Cardinality({v \in Variants : SyncedSKUs(price)[v] # sku[v]})
     IN  Save(Changed([product EXCEPT !.price = price, !.status = "draft"], 1 + synced))
  /\ sku' = SyncedSKUs(price)
  /\ UNCHANGED <<image, fence, approved>>

\* The price import's path for a product without SKUs.
UpdatePrice(price, version) ==
  /\ product.status # "none" /\ version = product.version
  /\ ~HasVariants /\ ValidateProductInput(price) /\ price # product.price
  /\ Save(Changed([product EXCEPT !.price = price, !.status = "draft"], 1))
  /\ UNCHANGED <<sku, image, fence, approved>>

createVariant(v, price) ==
  /\ product.status # "none" /\ sku[v].price = NoPrice
  /\ VariantPricing \/ price = product.price
  /\ Save(Changed(revise(product), 1))
  /\ sku' = [sku EXCEPT ![v] = [price |-> price, pv |-> 1]]
  /\ UNCHANGED <<image, fence, approved>>

UpdateVariantPrice(v, price, version) ==
  /\ product.status # "none" /\ sku[v].price \notin {NoPrice, price} /\ version = sku[v].pv
  /\ VariantPricing \/ price = product.price
  /\ Save(Changed(revise(product), 1))
  /\ sku' = [sku EXCEPT ![v] = [price |-> price, pv |-> version + 1]]
  /\ UNCHANGED <<image, fence, approved>>

setActive(on) ==
  /\ product.status # "none" /\ product.active # on
  /\ Save(Changed([product EXCEPT !.active = on], 1))
  /\ UNCHANGED <<sku, image, fence, approved>>

submitForReview ==
  /\ CanTransition(product.status, "pending_review")
  /\ image # NoPicture
  /\ UpdateStatus("pending_review")
  /\ UNCHANGED <<sku, image, fence, approved>>

approve ==
  /\ CanTransition(product.status, "approved")
  /\ UpdateStatus("approved")
  /\ approved' = Content
  /\ UNCHANGED <<sku, image, fence>>

reject ==
  /\ CanTransition(product.status, "rejected")
  /\ UpdateStatus("rejected")
  /\ UNCHANGED <<sku, image, fence, approved>>

----------------------------------------------------------------------------
(* Pictures: replacing or adding one (lockForAttach) and removing one.      *)

lockForAttach(p) ==
  /\ product.status # "none" /\ p # image
  /\ Save(revise(product))
  /\ image' = p
  /\ UNCHANGED <<sku, fence, approved>>

deleteImage ==
  /\ product.status # "none" /\ image # NoPicture
  /\ Save(revise(product))
  /\ image' = NoPicture
  /\ UNCHANGED <<sku, fence, approved>>

----------------------------------------------------------------------------
(* The status outbox and Order's copy.                                      *)

Backfill ==
  /\ product.status # "none" /\ outbox = NoRow /\ product.enforced < product.version
  /\ outbox' = 0
  /\ UNCHANGED <<product, sku, image, fence, approved>>

\* Publishing fails, perhaps after the message got through: the attempt is
\* counted and the row stays.  When it succeeds the version is enforced.
Dispatch ==
  /\ outbox < MaxAttempts /\ Cardinality(bus) < MaxInFlight
  /\ LET message == [version |-> product.version, visible |-> IsPubliclyVisible]
     IN  \/ /\ bus' = bus \cup {message}
            /\ product' = [product EXCEPT !.enforced = product.version]
            /\ outbox' = NoRow
         \/ /\ bus' \in {bus, bus \cup {message}}
            /\ outbox' = outbox + 1
            /\ UNCHANGED product
  /\ UNCHANGED <<sku, image, sale, told, quote, sold, approved>>

\* An administrator resends a parked status.
Replay ==
  /\ outbox = MaxAttempts
  /\ outbox' = 0
  /\ UNCHANGED <<product, sku, image, fence, approved>>

applyAnyStatus(m) == m

applyStatus(m) ==
  IF sale.version < m.version \/ sale = m THEN m ELSE sale

\* A status message reaches Order: messages overtake one another and may be
\* delivered again.
Deliver(m) ==
  /\ m \in bus
  /\ sale' = applyStatus(m)
  /\ told' = IF m.version > told THEN m.version ELSE told
  /\ bus' \in {bus, bus \ {m}}
  /\ UNCHANGED <<product, sku, image, outbox, quote, sold, approved>>

----------------------------------------------------------------------------
(* Selling: Checkout asks Catalog for a quote, and later creates the order *)
(* under the fence.  v = NoSKU stands for a line without a SKU.            *)

UnitPrice(v) == IF v = NoSKU THEN product.price ELSE sku[v].price

IsSellable(v) ==
  /\ IsPubliclyVisible /\ product.enforced = product.version
  /\ (v = NoSKU) = ~HasVariants
  /\ v # NoSKU => sku[v].price # NoPrice /\ (VariantPricing \/ sku[v].price = product.price)

PurchaseQuotes(v) ==
  /\ product.status # "none" /\ IsSellable(v)
  /\ quote' = [version |-> product.version, variant |-> v, price |-> UnitPrice(v),
               reviewed |-> approved = Content]
  /\ UNCHANGED <<product, sku, image, outbox, bus, sale, told, sold, approved>>

LockVisible == sale.visible /\ sale.version = quote.version

CreateFromPlan ==
  /\ quote # NoQuote /\ LockVisible
  /\ sold' = sold \cup {quote}
  /\ quote' = NoQuote
  /\ UNCHANGED <<product, sku, image, outbox, bus, sale, told, approved>>

----------------------------------------------------------------------------
Init ==
  /\ product = [status |-> "none", active |-> FALSE, price |-> NoPrice, version |-> 0, enforced |-> 0]
  /\ sku = [v \in Variants |-> [price |-> NoPrice, pv |-> 0]]
  /\ image = NoPicture
  /\ outbox = NoRow /\ bus = {} /\ sale = [version |-> 0, visible |-> FALSE] /\ told = 0
  /\ quote = NoQuote /\ sold = {} /\ approved = [price |-> NoPrice]

Vendor ==
  \/ \E p \in Prices : Create(p)
  \/ \E p \in Prices, n \in 1..MaxVersion : UpdateContent(p, n) \/ UpdatePrice(p, n)
  \/ \E v \in Variants, p \in Prices : createVariant(v, p)
  \/ \E v \in Variants, p \in Prices, n \in 1..MaxVersion : UpdateVariantPrice(v, p, n)
  \/ \E on \in BOOLEAN : setActive(on)
  \/ submitForReview \/ deleteImage
  \/ \E p \in Pictures : lockForAttach(p)

Moderator == approve \/ reject \/ Replay

Worker ==
  \/ Backfill \/ Dispatch
  \/ \E m \in bus : Deliver(m)

Buyer == CreateFromPlan \/ \E v \in Variants \cup {NoSKU} : PurchaseQuotes(v)

Next == Vendor \/ Moderator \/ Worker \/ Buyer

Spec == Init /\ [][Next]_vars

----------------------------------------------------------------------------
\* What is sold was reviewed: the line's price and the product's picture
\* are those an administrator approved, although prices are quoted before the order is
\* created and every part of the content may be edited at any time.
SoldWasReviewed == \A s \in sold : s.reviewed

\* Order never sells a version older than one it has been told of, although
\* status messages overtake one another and are delivered again.
NoSaleBehindStatus == \A s \in sold' \ sold : s.version >= told

=============================================================================
