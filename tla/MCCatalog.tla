----------------------------- MODULE MCCatalog ------------------------------
(***************************************************************************)
(* What a shop sells and how it is shown, for TLC: products with their     *)
(* templates, the storefront's caches and pictures, reviews, and the       *)
(* shop's own selling status, records, payout and return destinations.     *)
(* Each has tables of its own, so one behaviour moves one of them: focus   *)
(* names it, and the others are absent.                                    *)
(***************************************************************************)

CONSTANTS Components,   \* the components this run moves
          Absent,       \* the state of the others
          Prices, Variants, Pictures, VariantPricing, MaxInFlight, Categories,
          Root, MaxCategoryLevel, Texts, Numbers, Booleans, Selects,
          MultiSelects, Packaging, Axes, OptionValues, MaxRules, Facts,
          Values, Readers, Reconciler, NoValue, FreshFor, RefreshAfter, MaxLag, Objects,
          MaxMedia, MaxDeletes, ShopSet, Items, Reasons, MaxImages,
          ShowUnverified, Consumers, OrderService, Uploads, Notices, Workers,
          Owner, RequireProof, MaxVersions, MaxProofs, MaxReads, Addresses,
          MaxText, Photos

VARIABLE focus         \* the component that moves
VARIABLES
  catalogProduct, sku, catalogImage, catalogOutbox, bus, sale, catalogTold,
  quote, sold, catalogApproved   \* Catalog
VARIABLES
  category, attribute, option, rule, rules, templateProduct, tx   \* CatalogTemplates
VARIABLES
  fact, live, ago, row, reader, storefrontOutbox, event, storefrontImage,
  media, storefrontUpload, kind, inBucket, cleanup, storefrontShop, visible,
  read, seen   \* Storefront
VARIABLES
  received, review, reply, active, report, trail, photo, images, reviewUpload,
  reviewStored   \* Review
VARIABLES
  vendorShop, interval, vendorOutbox, stream, page, held, plan, shown,
  vendorStored, vendorUpload, notice, busy, accepted   \* Shops
VARIABLES
  accounts, proofs, confirmed, call, audit, released, accountTold, address,
  default, accountApproved, editing, dest, carrier, view, checked, slipped,
  snapshots   \* ShopAccounts

C == INSTANCE Catalog WITH
       MaxAttempts <- 1, MaxVersion <- 5, product <- catalogProduct,
       image <- catalogImage, outbox <- catalogOutbox, told <- catalogTold,
       approved <- catalogApproved
T == INSTANCE CatalogTemplates WITH
       product <- templateProduct
F == INSTANCE Storefront WITH
       MaxAttempts <- 2, outbox <- storefrontOutbox, image <- storefrontImage,
       upload <- storefrontUpload, shop <- storefrontShop
R == INSTANCE Review WITH
       Objects <- Photos, MaxAttempts <- 2, upload <- reviewUpload,
       stored <- reviewStored
S == INSTANCE Shops WITH
       MaxVersion <- 4, MaxAttempts <- 2, shop <- vendorShop,
       outbox <- vendorOutbox, stored <- vendorStored, upload <- vendorUpload
A == INSTANCE ShopAccounts WITH
       Admins <- {"owner", "finance"}, MaxVersion <- 3, told <- accountTold,
       approved <- accountApproved

catalogGroup == <<catalogProduct, sku, catalogImage, catalogOutbox, bus, sale, catalogTold,
   quote, sold, catalogApproved>>
templatesGroup == <<category, attribute, option, rule, rules, templateProduct, tx>>
cacheGroup == <<fact, live, ago, row, reader, storefrontOutbox, event>>
picturesGroup == <<storefrontImage, media, storefrontUpload, kind, inBucket, cleanup>>
salesGroup == <<storefrontShop, visible, read, seen>>
reviewGroup == <<received, review, reply, active, report, trail, photo, images,
   reviewUpload, reviewStored>>
sellingGroup == <<vendorShop, interval, vendorOutbox, stream, page, held, plan>>
recordsGroup == <<shown, vendorStored, vendorUpload, notice, busy, accepted>>
payoutsGroup == <<accounts, proofs, confirmed, call, audit, released, accountTold>>
returnsGroup == <<address, default, accountApproved, editing, dest, carrier, view, checked,
   slipped, snapshots>>
mcVars == <<focus, catalogGroup, templatesGroup, cacheGroup, picturesGroup,
            salesGroup, reviewGroup, sellingGroup, recordsGroup, payoutsGroup,
            returnsGroup>>

Only(component) ==
  /\ focus = component /\ UNCHANGED focus
  /\ IF component = "catalog" THEN TRUE ELSE UNCHANGED catalogGroup
  /\ IF component = "templates" THEN TRUE ELSE UNCHANGED templatesGroup
  /\ IF component = "cache" THEN TRUE ELSE UNCHANGED cacheGroup
  /\ IF component = "pictures" THEN TRUE ELSE UNCHANGED picturesGroup
  /\ IF component = "sales" THEN TRUE ELSE UNCHANGED salesGroup
  /\ IF component = "review" THEN TRUE ELSE UNCHANGED reviewGroup
  /\ IF component = "selling" THEN TRUE ELSE UNCHANGED sellingGroup
  /\ IF component = "records" THEN TRUE ELSE UNCHANGED recordsGroup
  /\ IF component = "payouts" THEN TRUE ELSE UNCHANGED payoutsGroup
  /\ IF component = "returns" THEN TRUE ELSE UNCHANGED returnsGroup

MCInit ==
  /\ focus \in Components
  /\ IF focus = "catalog" THEN C!Init
     ELSE /\ catalogProduct = Absent /\ sku = Absent /\ catalogImage = Absent
          /\ catalogOutbox = Absent /\ bus = Absent /\ sale = Absent
          /\ catalogTold = Absent /\ quote = Absent /\ sold = Absent
          /\ catalogApproved = Absent
  /\ IF focus = "templates" THEN T!Init
     ELSE /\ category = Absent /\ attribute = Absent /\ option = Absent
          /\ rule = Absent /\ rules = Absent /\ templateProduct = Absent
          /\ tx = Absent
  /\ IF focus = "cache" THEN F!CacheInit
     ELSE /\ fact = Absent /\ live = Absent /\ ago = Absent /\ row = Absent
          /\ reader = Absent /\ storefrontOutbox = Absent /\ event = Absent
  /\ IF focus = "pictures" THEN F!PicturesInit
     ELSE /\ storefrontImage = Absent /\ media = Absent
          /\ storefrontUpload = Absent /\ kind = Absent /\ inBucket = Absent
          /\ cleanup = Absent
  /\ IF focus = "sales" THEN F!FactsInit
     ELSE /\ storefrontShop = Absent /\ visible = Absent /\ read = Absent
          /\ seen = Absent
  /\ IF focus = "review" THEN R!Init
     ELSE /\ received = Absent /\ review = Absent /\ reply = Absent
          /\ active = Absent /\ report = Absent /\ trail = Absent
          /\ photo = Absent /\ images = Absent /\ reviewUpload = Absent
          /\ reviewStored = Absent
  /\ IF focus = "selling" THEN S!Init
     ELSE /\ vendorShop = Absent /\ interval = Absent /\ vendorOutbox = Absent
          /\ stream = Absent /\ page = Absent /\ held = Absent /\ plan = Absent
  /\ IF focus = "records" THEN S!ShopRecordsInit
     ELSE /\ shown = Absent /\ vendorStored = Absent /\ vendorUpload = Absent
          /\ notice = Absent /\ busy = Absent /\ accepted = Absent
  /\ IF focus = "payouts" THEN A!PayoutInit
     ELSE /\ accounts = Absent /\ proofs = Absent /\ confirmed = Absent
          /\ call = Absent /\ audit = Absent /\ released = Absent
          /\ accountTold = Absent
  /\ IF focus = "returns" THEN A!ReturnsInit
     ELSE /\ address = Absent /\ default = Absent /\ accountApproved = Absent
          /\ editing = Absent /\ dest = Absent /\ carrier = Absent
          /\ view = Absent /\ checked = Absent /\ slipped = Absent
          /\ snapshots = Absent

MCNext ==
  \/ Only("catalog") /\ C!Next
  \/ Only("templates") /\ T!Next
  \/ Only("cache") /\ F!CacheNext
  \/ Only("pictures") /\ F!PicturesNext
  \/ Only("sales") /\ F!FactsNext
  \/ Only("review") /\ R!Next
  \/ Only("selling") /\ S!Next
  \/ Only("records") /\ S!ShopRecordsNext
  \/ Only("payouts") /\ A!PayoutNext
  \/ Only("returns") /\ A!ReturnsNext

MCSpec == MCInit /\ [][MCNext]_mcVars

-----------------------------------------------------------------------------
(* Properties.                                                             *)

\* What is sold and shown is true: an order line carries content an admin
\* approved and a price the shop set (Catalog), the rules of the nearest category
\* decide what a product needs (CatalogTemplates), answers from the cache and
\* from other services are recent and pictures have their object (Storefront),
\* and reviews are shown as they were moderated (Review).
SoldAsShown ==
  /\ focus = "catalog" => C!SoldWasReviewed
  /\ focus = "templates" => T!NearestRuleDecides
  /\ focus = "cache" => F!AnswersAreRecent
  /\ focus = "pictures" => F!AttachedIsStored
  /\ focus = "sales" => F!AnswersWereTrue
  /\ focus = "review" => R!ReviewsHold

\* A shop's own records: the selling status has one version per change, images
\* and notices are kept, and money and returns go where an admin or the carrier
\* checked (Shops, ShopAccounts).
ShopRecordsHold ==
  /\ focus = "selling" => S!SellingIsVersioned
  /\ focus = "records" => S!ImagesAreStored /\ S!NoticesAreHeld
  /\ focus = "payouts" => A!DestinationsAreProven
  /\ focus = "returns" => A!DestinationWasVerified

\* What the copies of a return destination say was seen (ShopAccounts).
ReturnsGoWhereChecked == focus = "returns" => A!SnapshotIsAsSeen

\* The order service's copy of a status never goes back and never says "for
\* sale" behind the owner's newer "not for sale", and a product is approved
\* under the rules of that moment (Catalog, Shops, CatalogTemplates).
DecisionsStand ==
  [][/\ focus = "catalog" => C!NoSaleBehindStatus
     /\ focus = "selling" => S!StatusNeverGoesBack
     /\ focus = "templates" => T!ApprovedUnderCurrentRules]_mcVars

=============================================================================
