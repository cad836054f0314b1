------------------------------ MODULE Purchase ------------------------------
(***************************************************************************)
(* What a checkout charges.  Order shows the buyer a preview and later     *)
(* computes the order again from Catalog's prices, Shipment's fees and the *)
(* commission rule, asking each service at its own moment while all of     *)
(* them change.  The buyer's confirmation names what was shown.  The       *)
(* saga the computed order goes through is module Checkout; here is the    *)
(* computation before it, with its readings.                               *)
(***************************************************************************)
EXTENDS Integers, FiniteSets, FiniteSetsExt, Naturals

CONSTANTS
  Shops,            \* the cart has one line of each
  Prices, Fees, Rates,  \* amounts; commission rates in basis points
  Quantity,         \* units per line
  VariantPricing,   \* VARIANT_PRICING_ENABLED, with variant lines in the cart
  MaxAmount,        \* the largest amount (2^63 - 1 in the program)
  MaxChanges        \* bound: changes of prices, fees and rates

VARIABLES
  catalog,   \* by shop: the product's line as PurchaseQuotes would answer now
  fees,      \* by shop: the fee Shipment would quote now, or NoFee
  rate,      \* the current commission rule
  seen,      \* by shop: the price the cart line was accepted at, or NoPrice
  shown,     \* the last preview: what the buyer may confirm, or Nothing
  request,   \* the running preview or checkout
  order,     \* the order created, or Nothing
  since,     \* what Catalog's lines were since the fees were last answered
  changes

vars == <<catalog, fees, rate, seen, shown, request, order, since, changes>>

NoFee == -1
NoPrice == -2
NoTotal == -3
Unanswered == -4

Nothing == [total |-> NoTotal]
Idle == [kind |-> "none"]

Init ==
  /\ catalog \in [Shops -> {[price |-> p, version |-> 1, weighed |-> TRUE, sellable |-> TRUE] :
                              p \in Prices}]
  /\ fees \in [Shops -> Fees] /\ rate \in Rates
  /\ seen \in [Shops -> {NoPrice}] /\ shown = Nothing /\ request = Idle /\ order = Nothing
  /\ since = {} /\ changes = 0

---------------------------------------------------------------------------
(* The arithmetic.  An amount that does not fit is refused, not wrapped.   *)
Fits(amount) == 0 <= amount /\ amount <= MaxAmount

CommissionInPercent(subtotal, bps) == (subtotal * bps) \div 100

ComputeCommission(subtotal, bps) == (subtotal * bps) \div 10000

Subtotal(lines, s) == lines[s].price * Quantity
Goods(lines) == MapThenSumSet(LAMBDA s : Subtotal(lines, s), Shops)
Shipping(quotes) == MapThenSumSet(LAMBDA s : quotes[s], Shops)

BuildCheckoutPlan(lines) == \A s \in Shops : lines[s].price > 0 /\ Fits(Subtotal(lines, s))

(* The total of the plan with the quotes applied. *)
ApplyShipping(lines, quotes) == Goods(lines) + Shipping(quotes)

ApplyCommission(lines, bps) ==
  [s \in Shops |-> LET amount == ComputeCommission(Subtotal(lines, s), bps)
                   IN  [amount |-> amount, net |-> Subtotal(lines, s) - amount]]

---------------------------------------------------------------------------
(* The services change while the buyer decides. *)
Change == changes < MaxChanges /\ changes' = changes + 1

Changed(new) ==
  /\ catalog' = new
  /\ since' = IF since = {} THEN {} ELSE since \cup {new}

ChangePrice(s, p) ==
  /\ Change /\ p # catalog[s].price
  /\ Changed([catalog EXCEPT ![s].price = p, ![s].version = @ + 1])
  /\ UNCHANGED <<fees, rate, seen, shown, request, order>>

ChangeProduct(s) ==
  /\ Change
  /\ \/ Changed([catalog EXCEPT ![s].sellable = ~@])
     \/ Changed([catalog EXCEPT ![s].weighed = ~@, ![s].version = @ + 1])
  /\ UNCHANGED <<fees, rate, seen, shown, request, order>>

ChangeFee(s, f) ==
  /\ Change /\ fees[s] # f /\ fees' = [fees EXCEPT ![s] = f]
  /\ UNCHANGED <<catalog, rate, seen, shown, request, order, since>>

ChangeRate(bps) ==
  /\ Change /\ rate # bps /\ rate' = bps
  /\ UNCHANGED <<catalog, fees, seen, shown, request, order, since>>

---------------------------------------------------------------------------
(* The buyer puts the lines in the cart again at today's prices, asks for  *)
(* a preview, and checks out with or without naming what it showed.        *)
AcceptPrices ==
  /\ request = Idle /\ order = Nothing
  /\ seen' = [s \in Shops |-> catalog[s].price]
  /\ UNCHANGED <<catalog, fees, rate, shown, request, order, since, changes>>

Request(kind, version, total) ==
  [kind |-> kind, step |-> "price", expectedVersion |-> version, expectedTotal |-> total,
   lines |-> catalog, quotes |-> [s \in Shops |-> Unanswered], bps |-> 0]

Ask(kind, version, total) ==
  /\ request = Idle /\ order = Nothing
  /\ request' = Request(kind, version, total)
  /\ since' = {}
  /\ UNCHANGED <<catalog, fees, rate, seen, shown, order, changes>>

(* A buyer who saw no preview names neither. *)
Confirm ==
  \/ shown # Nothing /\ Ask("checkout", {shown.lines}, shown.total)
  \/ Ask("checkout", {}, NoTotal)

Refuse ==
  /\ request' = Idle /\ since' = {}
  /\ UNCHANGED <<catalog, fees, rate, seen, shown, order, changes>>

At(step) == request # Idle /\ request.step = step

GoOn(next) ==
  /\ request' = next
  /\ UNCHANGED <<catalog, fees, rate, seen, shown, order, changes>>

(* A line that cannot be sold, or whose price is not the accepted one,     *)
(* ends the request.                                                       *)
PriceAccepted(s) ==
  /\ catalog[s].sellable
  /\ seen[s] # NoPrice => seen[s] = catalog[s].price
  /\ VariantPricing => seen[s] = catalog[s].price

PriceLines == \A s \in Shops : PriceAccepted(s)

(* The version of a quote stands for all its lines. *)
QuoteConfirmed ==
  (VariantPricing \/ request.expectedVersion # {}) => request.expectedVersion = {catalog}

Price ==
  /\ At("price")
  /\ \/ /\ PriceLines /\ BuildCheckoutPlan(catalog)
        /\ request.kind = "checkout" => QuoteConfirmed
        /\ GoOn([request EXCEPT !.step = "shipping", !.lines = catalog]) /\ UNCHANGED since
     \/ /\ ~(PriceLines /\ BuildCheckoutPlan(catalog) /\ (request.kind = "checkout" => QuoteConfirmed))
        /\ Refuse

(* No answer, or one that is not of the lines asked for. *)
PurchaseQuotesFail == (At("price") \/ At("recheck")) /\ Refuse
QuoteFails == At("shipping") /\ Refuse

(* Every shop's package is quoted on its own, at most four at a time; the  *)
(* answers come in any order.  A product without a weight has no fee.      *)
Quote(s) ==
  /\ At("shipping") /\ request.quotes[s] = Unanswered
  /\ GoOn([request EXCEPT !.quotes[s] = IF request.lines[s].weighed THEN fees[s] ELSE NoFee])
  /\ since' = {catalog}

Answered == At("shipping") /\ \A s \in Shops : request.quotes[s] # Unanswered
AllServed == \A s \in Shops : request.quotes[s] # NoFee
Total == ApplyShipping(request.lines, request.quotes)

(* A preview reports the shops that cannot be served; it has no total then. *)
Preview ==
  /\ Answered /\ request.kind = "preview"
  /\ shown' = [lines |-> request.lines,
               total |-> IF AllServed /\ Fits(Total) THEN Total ELSE NoTotal]
  /\ request' = Idle /\ since' = {}
  /\ UNCHANGED <<catalog, fees, rate, seen, order, changes>>

TotalConfirmed == request.expectedTotal # NoTotal => request.expectedTotal = Total

(* The commission rule is read, and the total compared with the shown one. *)
Compute ==
  /\ Answered /\ request.kind = "checkout"
  /\ \/ /\ AllServed /\ Fits(Total) /\ TotalConfirmed
        /\ GoOn([request EXCEPT !.step = "vendors", !.bps = rate]) /\ UNCHANGED since
     \/ /\ ~(AllServed /\ Fits(Total) /\ TotalConfirmed) /\ Refuse

(* Vendor's answer to whether every shop may sell. *)
AskVendors ==
  /\ At("vendors")
  /\ \/ GoOn([request EXCEPT !.step = "recheck"]) /\ UNCHANGED since
     \/ Refuse

SamePrices == request.lines = catalog

(* Everything is priced once more after the slow answers. *)
Recheck ==
  /\ At("recheck")
  /\ \/ PriceLines /\ SamePrices /\ GoOn([request EXCEPT !.step = "create"]) /\ UNCHANGED since
     \/ ~(PriceLines /\ SamePrices) /\ Refuse

CreateFromPlan ==
  /\ At("create")
  /\ order' = [lines |-> request.lines, shipping |-> request.quotes, total |-> Total,
               commission |-> ApplyCommission(request.lines, request.bps),
               confirmed |-> request.expectedTotal]
  /\ request' = Idle
  /\ UNCHANGED <<catalog, fees, rate, seen, shown, since, changes>>

Next ==
  \/ \E s \in Shops :
       \/ \E p \in Prices : ChangePrice(s, p)
       \/ ChangeProduct(s) \/ Quote(s)
       \/ \E f \in Fees \cup {NoFee} : ChangeFee(s, f)
  \/ \E bps \in Rates : ChangeRate(bps)
  \/ AcceptPrices \/ Ask("preview", {}, NoTotal) \/ Confirm
  \/ PurchaseQuotesFail \/ QuoteFails
  \/ Price \/ Preview \/ Compute \/ AskVendors \/ Recheck \/ CreateFromPlan

Spec == Init /\ [][Next]_vars

---------------------------------------------------------------------------
(* The order adds up: its total is the goods and the fees, and what the    *)
(* marketplace keeps of a shop's goods and what the shop nets make the     *)
(* goods, neither of them negative, whatever the rate rounds to.           *)
OrderAddsUp ==
  order # Nothing =>
    /\ Fits(order.total) /\ order.total = Goods(order.lines) + Shipping(order.shipping)
    /\ \A s \in Shops :
         /\ order.commission[s].amount \in 0..Subtotal(order.lines, s)
         /\ order.commission[s].amount + order.commission[s].net = Subtotal(order.lines, s)

(* A buyer who confirmed a total is charged that total, and one who        *)
(* accepted a price in the cart pays it, though every service was asked    *)
(* again since.                                                            *)
ChargedAsConfirmed ==
  order # Nothing =>
    /\ order.confirmed # NoTotal => order.total = order.confirmed
    /\ \A s \in Shops : seen[s] # NoPrice => order.lines[s].price = seen[s]

(* The goods of an order were for sale together, at these prices and       *)
(* weights, at one moment after Shipment had priced the packages: the      *)
(* order does not mix what Catalog said at different times.                *)
OrderedAsSold ==
  order # Nothing => order.lines \in since /\ \A s \in Shops : order.lines[s].sellable

-----------------------------------------------------------------------------
(***************************************************************************)
(* A buyer's cart (services/cart): lines added, set, confirmed and removed *)
(* from several tabs under one lock and an optional expected version; the  *)
(* view of it; and the checkout contract, where Order freezes a snapshot   *)
(* for an operation and later consumes exactly what was bought, once.      *)
(* Idle carts and old operations are purged.                               *)
(*                                                                         *)
(* Catalog's quote and Inventory's stock are read outside the lock; what   *)
(* they say is external, any of Facts at each reading.  One buyer.         *)
(***************************************************************************)
CONSTANTS
  Products, Tabs, Operations,
  Facts,        \* what Catalog may say: [found, approved, options, visible, paused, price, currency]
  Quantities, MaxQuantityPerLine, MaxLinesPerCart,
  MaxVersion, MaxLines, MaxCarts   \* bounds of the model

VARIABLES
  cart,      \* [id, version]
  cartLines,     \* Products -> the line of the product in the cart
  nextLine,  \* the last line id given out
  cartRequest,   \* Tabs -> the mutation a tab has under way
  view,      \* Tabs -> what the tab last showed
  op,        \* Operations -> the checkout operation
  taken      \* Operations -> what its consumption took off, for each product

cartVars == <<cart, cartLines, nextLine, cartRequest, view, op, taken>>

NoLine == [id |-> 0, quantity |-> 0, price |-> 0, currency |-> "none"]
NoRequest == [kind |-> "none"]
Empty == [p \in Products |-> NoLine]
NoOp == [status |-> "none", cart |-> 0, version |-> 0, lines |-> Empty]

InCart == {p \in Products : cartLines[p] # NoLine}

Kinds == {"add", "set", "remove", "clear", "confirm"}

CartInit ==
  /\ cart = [id |-> 1, version |-> 1]
  /\ cartLines = Empty
  /\ nextLine = 0
  /\ cartRequest = [t \in Tabs |-> NoRequest]
  /\ view = [t \in Tabs |-> [cart |-> 0, version |-> 0, lines |-> Empty, ready |-> FALSE]]
  /\ op = [o \in Operations |-> NoOp]
  /\ taken = [o \in Operations |-> [p \in Products |-> 0]]

-----------------------------------------------------------------------------
(* What a line is worth, as Catalog and Inventory report it.               *)

StockStatus(available, quantity) ==
  IF available = 0 THEN "out_of_stock" ELSE IF available < quantity THEN "insufficient" ELSE "in_stock"

PriceChanged(line, fact) == line.price # fact.price \/ line.currency # fact.currency

\* The first reason that keeps a line from being bought.
EvaluateLine(fact, stock) ==
  CASE ~fact.found -> "removed"
    [] fact.found /\ ~fact.approved -> "under_review"
    [] fact.found /\ fact.approved /\ fact.options -> "option_required"
    [] OTHER -> IF ~fact.visible THEN (IF fact.paused THEN "shop_paused" ELSE "not_for_sale")
                ELSE IF stock = "in_stock" THEN "available" ELSE stock

Purchasable(state) == state = "available"

\* Catalog answers for every line or for none of them.
lineView(p, answered, quote, stock) ==
  IF answered THEN EvaluateLine(quote[p], StockStatus(stock, cartLines[p].quantity)) ELSE "unverified"

\* Ready when each line can be bought at the price its buyer knows, in one
\* currency.
CheckoutReady(answered, quote, stock) ==
  /\ InCart # {}
  /\ \A p \in InCart : Purchasable(lineView(p, answered, quote, stock)) /\ ~PriceChanged(cartLines[p], quote[p])
  /\ Cardinality({quote[p].currency : p \in InCart}) = 1
  /\ Cardinality(InCart) <= MaxLinesPerCart

View(t, answered, quote, stock) ==
  /\ view' = [view EXCEPT ![t] = [cart |-> cart.id, version |-> cart.version, lines |-> cartLines,
                                  ready |-> CheckoutReady(answered, quote, stock)]]
  /\ UNCHANGED <<cart, cartLines, nextLine, cartRequest, op, taken>>

-----------------------------------------------------------------------------
(* Mutations: the quote is read first, the change is made under the lock.  *)

\* Only a product that can be bought, with an option if it has any.
assertSellable(f) == f.found /\ f.approved /\ ~f.options /\ f.visible

\* With the version the tab shows, or without one as older clients do.
CartAsk(t, kind, p, fact, quantity, conditional) ==
  /\ cartRequest[t] = NoRequest
  /\ kind \in {"add", "set", "confirm"} => assertSellable(fact)
  /\ kind = "confirm" => view[t].lines[p] # NoLine /\ conditional
  /\ cartRequest' = [cartRequest EXCEPT ![t] =
       [kind |-> kind, product |-> p, quantity |-> quantity, line |-> view[t].lines[p].id,
        price |-> fact.price, currency |-> fact.currency,
        conditional |-> conditional, expected |-> view[t].version]]
  /\ UNCHANGED <<cart, cartLines, nextLine, view, op, taken>>

CheckExpectedVersion(r) == r.conditional => r.expected = cart.version

BumpVersion == cart' = [cart EXCEPT !.version = @ + 1]

\* Under the cart's lock: a change, its condition, and the new version.
mutate(t, changed) ==
  /\ CheckExpectedVersion(cartRequest[t])
  /\ cart.version < MaxVersion /\ cartLines' = changed /\ BumpVersion
  /\ cartRequest' = [cartRequest EXCEPT ![t] = NoRequest]
  /\ UNCHANGED <<view, op, taken>>

Refused(t) ==
  /\ cartRequest[t] # NoRequest /\ cartRequest' = [cartRequest EXCEPT ![t] = NoRequest]
  /\ UNCHANGED <<cart, cartLines, nextLine, view, op, taken>>

EnsureLineCapacity == Cardinality(InCart) < MaxLinesPerCart

HasOtherCurrency(p, currency) == \E q \in InCart \ {p} : cartLines[q].currency # currency

\* A new line remembers the price that was quoted.
insertLine(t) ==
  LET r == cartRequest[t]
  IN  /\ EnsureLineCapacity /\ ~HasOtherCurrency(r.product, r.currency)
      /\ nextLine < MaxLines /\ nextLine' = nextLine + 1
      /\ mutate(t, [cartLines EXCEPT ![r.product] =
           [id |-> nextLine + 1, quantity |-> r.quantity, price |-> r.price, currency |-> r.currency]])

\* More units of a line that is there keep its old price reference.
AccumulatedQuantity(p, quantity) == cartLines[p].quantity + quantity

AddItem(t) ==
  LET r == cartRequest[t]
  IN  /\ r.kind = "add"
      /\ IF cartLines[r.product] = NoLine THEN insertLine(t)
         ELSE /\ AccumulatedQuantity(r.product, r.quantity) <= MaxQuantityPerLine
              /\ ~HasOtherCurrency(r.product, r.currency)
              /\ mutate(t, [cartLines EXCEPT ![r.product].quantity = AccumulatedQuantity(r.product, r.quantity)])
              /\ UNCHANGED nextLine

SetItemQuantity(t) ==
  LET r == cartRequest[t]
  IN  /\ r.kind = "set"
      /\ IF cartLines[r.product] = NoLine THEN insertLine(t)
         ELSE mutate(t, [cartLines EXCEPT ![r.product].quantity = r.quantity]) /\ UNCHANGED nextLine

\* A line that is not there is already removed: no new version.
RemoveItem(t) ==
  LET r == cartRequest[t]
  IN  /\ r.kind = "remove" /\ cartLines[r.product] # NoLine
      /\ mutate(t, [cartLines EXCEPT ![r.product] = NoLine]) /\ UNCHANGED nextLine

Clear(t) ==
  /\ cartRequest[t].kind = "clear" /\ InCart # {}
  /\ mutate(t, Empty) /\ UNCHANGED nextLine

\* The line is still the one that was confirmed, at the version that was seen.
ConfirmPrices(t) ==
  LET r == cartRequest[t]
  IN  /\ r.kind = "confirm" /\ cartLines[r.product].id = r.line
      /\ mutate(t, [cartLines EXCEPT ![r.product].price = r.price, ![r.product].currency = r.currency])
      /\ UNCHANGED nextLine

-----------------------------------------------------------------------------
(* Checkout.                                                               *)

\* The lines that are bought, as they are now.
SnapshotFromItems(selected) == [p \in Products |-> IF p \in selected THEN cartLines[p] ELSE NoLine]

\* The version the buyer reviewed, unless the request names none.  One that
\* names lines must name a version, and lines that are there.  The same
\* operation again gets what it froze.
CreateCheckoutSnapshot(t, o, selected, conditional) ==
  /\ op[o].status = "none" /\ selected \subseteq InCart /\ selected # {}
  /\ selected # InCart => conditional /\ \A p \in selected : view[t].lines[p].id = cartLines[p].id
  /\ conditional => view[t].version = cart.version
  /\ op' = [op EXCEPT ![o] = [status |-> "open", cart |-> cart.id, version |-> cart.version,
                              lines |-> SnapshotFromItems(selected)]]
  /\ UNCHANGED <<cart, cartLines, nextLine, cartRequest, view, taken>>

\* The snapshotted line itself: a line added again is another one, and so is
\* every line of a cart created after a purge.
Current(o, p) ==
  op[o].lines[p] # NoLine /\ op[o].cart = cart.id /\ cartLines[p].id = op[o].lines[p].id

\* The units taken off: never more than were snapshotted or than are there.
PlanConsume(o, p) ==
  IF ~Current(o, p) THEN 0
  ELSE IF cartLines[p].quantity > op[o].lines[p].quantity THEN op[o].lines[p].quantity ELSE cartLines[p].quantity

ConsumedAgain(o) == op[o].status \in {"open", "consumed"}

\* An operation with a receipt answers from it.
Consumable(o) == op[o].status = "open"

\* Whether the consumption gives the cart a new version.
NewVersion(changed) == IF changed THEN BumpVersion ELSE UNCHANGED cart

MarkConsumed(o) == op' = [op EXCEPT ![o].status = "consumed"]

ConsumeCheckout(o) ==
  LET after == [p \in Products |->
                 IF ~Current(o, p) THEN cartLines[p]
                 ELSE IF cartLines[p].quantity = PlanConsume(o, p) THEN NoLine
                 ELSE [cartLines[p] EXCEPT !.quantity = @ - PlanConsume(o, p)]]
  IN  /\ Consumable(o)
      /\ taken' = [taken EXCEPT ![o] = [p \in Products |-> @[p] + PlanConsume(o, p)]]
      /\ cartLines' = after
      /\ NewVersion(after # cartLines)
      /\ MarkConsumed(o)
      /\ UNCHANGED <<nextLine, cartRequest, view>>

-----------------------------------------------------------------------------
(* Retention.                                                              *)

\* An idle cart goes with its lines, unless an operation may still consume
\* from it; the buyer's next request creates another.
PurgeIdleCarts ==
  /\ \A o \in Operations : ~(op[o].status = "open" /\ op[o].cart = cart.id)
  /\ cart.id < MaxCarts
  /\ cart' = [id |-> cart.id + 1, version |-> 1] /\ cartLines' = Empty
  /\ UNCHANGED <<nextLine, cartRequest, view, op, taken>>

\* The window is longer than Order's retries: only a consumed operation goes.
PurgeOperations(o) ==
  /\ op[o].status = "consumed" /\ op' = [op EXCEPT ![o].status = "purged"]
  /\ UNCHANGED <<cart, cartLines, nextLine, cartRequest, view, taken>>

-----------------------------------------------------------------------------
CartNext ==
  \/ \E t \in Tabs :
       \/ \E answered \in BOOLEAN, quote \in [Products -> Facts], stock \in {0} \cup Quantities :
            View(t, answered, quote, stock)
       \/ \E kind \in Kinds, p \in Products, fact \in Facts, q \in Quantities, c \in BOOLEAN :
            CartAsk(t, kind, p, fact, q, c)
       \/ AddItem(t) \/ SetItemQuantity(t) \/ RemoveItem(t) \/ Clear(t) \/ ConfirmPrices(t) \/ Refused(t)
       \/ \E o \in Operations, selected \in SUBSET Products, c \in BOOLEAN :
            CreateCheckoutSnapshot(t, o, selected, c)
  \/ \E o \in Operations : ConsumeCheckout(o) \/ PurgeOperations(o)
  \/ PurgeIdleCarts

CartSpec == CartInit /\ [][CartNext]_cartVars

-----------------------------------------------------------------------------
\* A version names the contents of its cart: a tab, or an operation, that holds
\* the version this cart is at has seen exactly these lines, so what another tab
\* did to the cart is not trampled by a request conditional on it (cart_usecase.go
\* mutate, checkout.go ConsumeCheckout).  The promise ends with the cart: versions
\* start again in the one created after a purge, and CheckExpectedVersion
\* compares no cart, so a tab that was idle for the whole retention may pass.
VersionNamesContents ==
  /\ \A t \in Tabs : (view[t].cart = cart.id /\ view[t].version = cart.version) => view[t].lines = cartLines
  /\ \A o \in Operations : (op[o].cart = cart.id /\ op[o].version = cart.version /\ op[o].status = "open")
       => \A p \in Products : op[o].lines[p] \in {NoLine, cartLines[p]}

\* Across retries, edits, purges and re-added lines a checkout takes off no
\* more than it snapshotted (checkout.go ConsumeCheckout).
TakesWhatWasBought ==
  \A o \in Operations, p \in Products : taken[o][p] <= op[o].lines[p].quantity
=============================================================================
