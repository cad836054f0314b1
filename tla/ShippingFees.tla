---------------------------- MODULE ShippingFees ----------------------------
(***************************************************************************)
(* Shipment's prices: the carriers and zones an administrator sets up, the *)
(* fee rules of which each change is a new version, the carriers a shop    *)
(* ships with, and the quote of one package computed from all of them.  An *)
(* order keeps the quote it was placed with; the shipment opened after it  *)
(* is paid takes the fee from there.  Administrators, the shop's owner,    *)
(* the quote of a checkout and the two ways to open a shipment interleave. *)
(***************************************************************************)
EXTENDS Integers, FiniteSets

CONSTANTS
  Carriers, Zones,
  Rules,           \* fee rules an administrator enters: [base, free, extra]
  Weights,         \* package weights in grams
  Owners,          \* sessions of the shop's owner
  MaxVersion,      \* bound: versions of one rule
  MaxChanges       \* bound: changes of the configuration

VARIABLES
  carriers,   \* carriers: "absent", "inactive" or "active"
  zoneOf,     \* shipping_zone_provinces: the province's zone, or NoZone
  rules,      \* shipping_fee_rules: by carrier and zone, version -> rule
  setting,    \* an administrator's SetCurrent: NoSetting, or what it read
  methods,    \* vendor_shipping_methods: "absent", "inactive" or "active"
  default,    \* the methods with is_default
  changes,    \* how often the configuration was changed
  enabling,   \* by session: the carrier being enabled and what was read
  quote,      \* the running quote: its step and what it read so far
  order,      \* the quote the vendor order was placed with, or NoQuote
  opening,    \* the openings that found no shipment yet, with their fee
  shipment    \* shipments: the fee it was opened with, or NoFee

feesVars == <<carriers, zoneOf, rules, setting, methods, default, enabling, changes, quote,
          order, opening, shipment>>
config == <<carriers, zoneOf, rules, setting, methods, default, enabling, changes>>

NoZone == "no zone"
NoFee == -1
NoSetting == [carrier |-> "none", zone |-> NoZone, version |-> 0]
NotEnabling == [carrier |-> "none", first |-> FALSE]
Versions == 1..MaxVersion
NoRule == [base |-> NoFee, free |-> 0, extra |-> 0]
NoQuote == [step |-> "none", carrier |-> "none", zone |-> NoZone, version |-> 0,
            weight |-> 0, fee |-> NoFee]
NoOpening == [step |-> "none", fee |-> NoFee]
Openers == {"order", "shop"}

FeesInit ==
  /\ carriers \in [Carriers -> {"absent", "active"}] /\ zoneOf \in Zones \cup {NoZone}
  /\ rules = [c \in Carriers, z \in Zones |-> [v \in Versions |-> NoRule]]
  /\ setting = NoSetting
  /\ methods = [c \in Carriers |-> "absent"] /\ default = {}
  /\ enabling = [o \in Owners |-> NotEnabling] /\ changes = 0
  /\ quote = NoQuote /\ order = NoQuote
  /\ opening = [o \in Openers |-> NoOpening] /\ shipment = NoFee

Change == changes < MaxChanges /\ changes' = changes + 1

ValidateFeeRule(r) == r.base >= 0 /\ r.free >= 0 /\ r.extra >= 0

(* A base fee, and the extra for every kilogram begun above the free ones. *)
ComputeShippingFee(r, grams) ==
  IF grams <= r.free THEN r.base
  ELSE r.base + ((grams - r.free + 999) \div 1000) * r.extra

(* Highest version of a rule, 0 for none. *)
CurrentVersion(c, z) ==
  CHOOSE v \in Versions \cup {0} :
    /\ v # 0 => rules[c, z][v] # NoRule
    /\ \A w \in Versions : rules[c, z][w] # NoRule => w <= v

ValidateQuoteInput(grams) == grams > 0

---------------------------------------------------------------------------
(* The administrators. *)
CreateCarrier(c) ==
  /\ Change /\ carriers[c] = "absent" /\ carriers' = [carriers EXCEPT ![c] = "inactive"]
  /\ UNCHANGED <<zoneOf, rules, setting, methods, default, enabling, quote, order, opening, shipment>>

SetCarrierActive(c) ==
  /\ Change /\ carriers[c] # "absent"
  /\ \E active \in {"active", "inactive"} : carriers' = [carriers EXCEPT ![c] = active]
  /\ UNCHANGED <<zoneOf, rules, setting, methods, default, enabling, quote, order, opening, shipment>>

(* A province belongs to one zone and is never moved. *)
AddProvince(z) ==
  /\ Change /\ zoneOf = NoZone /\ zoneOf' = z
  /\ UNCHANGED <<carriers, rules, setting, methods, default, enabling, quote, order, opening, shipment>>

ReadCurrentVersion(c, z) ==
  /\ Change /\ setting = NoSetting /\ carriers[c] # "absent"
  /\ setting' = [carrier |-> c, zone |-> z, version |-> CurrentVersion(c, z) + 1]
  /\ UNCHANGED <<carriers, zoneOf, rules, methods, default, enabling, quote, order, opening, shipment>>

InsertRuleOver(c, z, v, r) == rules' = [rules EXCEPT ![c, z][v] = r]

(* The unique index keeps the version that was first. *)
InsertRule(c, z, v, r) ==
  /\ rules[c, z][v] = NoRule
  /\ rules' = [rules EXCEPT ![c, z][v] = r]

(* A second administrator, whose reading and insert nothing separates. *)
SetCurrentAtOnce(c, z, r) ==
  /\ Change /\ carriers[c] # "absent" /\ ValidateFeeRule(r)
  /\ CurrentVersion(c, z) < MaxVersion
  /\ InsertRule(c, z, CurrentVersion(c, z) + 1, r)
  /\ UNCHANGED <<carriers, zoneOf, setting, methods, default, enabling, quote, order, opening, shipment>>

SetCurrent(r) ==
  /\ setting # NoSetting /\ setting.version <= MaxVersion /\ ValidateFeeRule(r)
  /\ setting' = NoSetting
  /\ \/ InsertRule(setting.carrier, setting.zone, setting.version, r)
     \/ rules[setting.carrier, setting.zone][setting.version] # NoRule /\ UNCHANGED rules
  /\ UNCHANGED <<carriers, zoneOf, methods, default, enabling, changes, quote, order, opening, shipment>>

---------------------------------------------------------------------------
(* The shop's owner.  Enable reads the shop's methods, then inserts one;   *)
(* the first is the default.                                               *)
ListForVendor == {c \in Carriers : methods[c] # "absent"}

Enable(o, c) ==
  /\ Change /\ enabling[o] = NotEnabling /\ carriers[c] = "active"
  /\ enabling' = [enabling EXCEPT ![o] = [carrier |-> c, first |-> ListForVendor = {}]]
  /\ UNCHANGED <<carriers, zoneOf, rules, setting, methods, default, quote, order, opening, shipment>>

CreateTwoDefaults(c, first) ==
  /\ methods[c] = "absent"
  /\ methods' = [methods EXCEPT ![c] = "active"]
  /\ default' = IF first THEN default \cup {c} ELSE default

(* Another default inserted meanwhile: the unique index refuses, and the   *)
(* method is inserted as an ordinary one.                                  *)
CreateMethod(c, first) ==
  /\ methods[c] = "absent"
  /\ methods' = [methods EXCEPT ![c] = "active"]
  /\ default' = IF first /\ default = {} THEN {c} ELSE default

EnableInserts(o) ==
  /\ enabling[o] # NotEnabling /\ enabling' = [enabling EXCEPT ![o] = NotEnabling]
  /\ LET c == enabling[o].carrier
     IN  \/ CreateMethod(c, enabling[o].first)
         \/ methods[c] # "absent" /\ UNCHANGED <<methods, default>>
  /\ UNCHANGED <<carriers, zoneOf, rules, setting, changes, quote, order, opening, shipment>>

SetDefault(c) ==
  /\ Change /\ methods[c] # "absent" /\ default' = {c}
  /\ UNCHANGED <<carriers, zoneOf, rules, setting, methods, enabling, quote, order, opening, shipment>>

SetMethodActive(c) ==
  /\ Change /\ methods[c] # "absent"
  /\ \E active \in {"active", "inactive"} : methods' = [methods EXCEPT ![c] = active]
  /\ UNCHANGED <<carriers, zoneOf, rules, setting, default, enabling, quote, order, opening, shipment>>

---------------------------------------------------------------------------
(* A quote reads the shop's default method, the carrier, the zone and the  *)
(* rule one after the other.  Whatever is missing ends it: no fee is no    *)
(* answer, never a free delivery.                                          *)
FindDefaultForVendor == {c \in default : methods[c] = "active"}

AskQuote(grams) ==
  /\ quote = NoQuote /\ order = NoQuote /\ ValidateQuoteInput(grams)
  /\ \E c \in FindDefaultForVendor :
       quote' = [NoQuote EXCEPT !.step = "carrier", !.carrier = c, !.weight = grams]
  /\ UNCHANGED <<config, order, opening, shipment>>

ReadCarrier ==
  /\ quote.step = "carrier"
  /\ quote' = IF carriers[quote.carrier] = "active"
                THEN [quote EXCEPT !.step = "zone"] ELSE NoQuote
  /\ UNCHANGED <<config, order, opening, shipment>>

FindZoneByProvinceCode ==
  /\ quote.step = "zone"
  /\ quote' = IF zoneOf = NoZone THEN NoQuote
              ELSE [quote EXCEPT !.step = "rule", !.zone = zoneOf]
  /\ UNCHANGED <<config, order, opening, shipment>>

FindCurrent ==
  /\ quote.step = "rule"
  /\ LET v == CurrentVersion(quote.carrier, quote.zone)
     IN  quote' = IF v = 0 THEN NoQuote
                  ELSE [quote EXCEPT !.step = "answered", !.version = v,
                          !.fee = ComputeShippingFee(rules[quote.carrier, quote.zone][v],
                                                     quote.weight)]
  /\ UNCHANGED <<config, order, opening, shipment>>

(* The order is placed with the quote, and paid. *)
PlaceOrder ==
  /\ quote.step = "answered" /\ order' = quote /\ quote' = NoQuote
  /\ UNCHANGED <<config, opening, shipment>>

(* The checkout asks anew. *)
DropQuote ==
  /\ quote.step = "answered" /\ quote' = NoQuote
  /\ UNCHANGED <<config, order, opening, shipment>>

---------------------------------------------------------------------------
QuotedFee == order.fee

FindShipment(o) ==
  /\ order # NoQuote /\ opening[o] = NoOpening /\ shipment = NoFee
  /\ opening' = [opening EXCEPT ![o] = [step |-> "create", fee |-> QuotedFee]]
  /\ UNCHANGED <<config, quote, order, shipment>>

CreateShipment(o) ==
  /\ opening[o].step = "create"
  /\ shipment' = IF shipment = NoFee THEN opening[o].fee ELSE shipment
  /\ opening' = [opening EXCEPT ![o] = NoOpening]
  /\ UNCHANGED <<config, quote, order>>

FeesNext ==
  \/ \E c \in Carriers :
       CreateCarrier(c) \/ SetCarrierActive(c) \/ SetDefault(c) \/ SetMethodActive(c)
  \/ \E z \in Zones : AddProvince(z)
  \/ \E c \in Carriers, z \in Zones :
       ReadCurrentVersion(c, z) \/ \E r \in Rules : SetCurrentAtOnce(c, z, r)
  \/ \E r \in Rules : SetCurrent(r)
  \/ \E o \in Owners : EnableInserts(o) \/ \E c \in Carriers : Enable(o, c)
  \/ \E grams \in Weights : AskQuote(grams)
  \/ ReadCarrier \/ FindZoneByProvinceCode \/ FindCurrent \/ PlaceOrder \/ DropQuote
  \/ \E o \in Openers : FindShipment(o) \/ CreateShipment(o)

FeesSpec == FeesInit /\ [][FeesNext]_feesVars

---------------------------------------------------------------------------
(* A shop that ships with any carrier has exactly one default among them,  *)
(* however its sessions race: without one its goods cannot be sold, and    *)
(* with two the quote is not determined.                                   *)
OneDefault == ListForVendor # {} => Cardinality(default) = 1

(* What the buyer pays for the delivery is what the shop's shipment was    *)
(* opened with, and the rule version named by the order still explains it, *)
(* whatever rules, carriers and methods became of in between.              *)
PaidFeeIsExplained ==
  /\ order # NoQuote =>
       order.fee = ComputeShippingFee(rules[order.carrier, order.zone][order.version], order.weight)
  /\ shipment # NoFee => shipment = order.fee

-----------------------------------------------------------------------------
(***************************************************************************)
(* Versioned policies.  An admin drafts a version of a marketplace policy  *)
(* and asks for its publication; the services that enforce the rules it    *)
(* cites acknowledge them, outside any transaction, and a worker asks      *)
(* again while they do not.  A shop proposes an addition that an admin     *)
(* decides.  Published versions reach Order, where a checkout fixes the    *)
(* ones in force, which must be those its buyer names, if any are named.   *)
(*                                                                         *)
(* One kind of policy and one shop.  A version cites a rule that Order     *)
(* enforces today or one that it enforces only from its next release.      *)
(***************************************************************************)
CONSTANTS
  PolicyVersions,     \* numbers of marketplace versions
  ShopVersions, \* numbers of shop versions
  Askers,       \* those that ask the rule owners: an admin's request, the worker
  MaxTime       \* bound on the clock

VARIABLES
  now,
  released,   \* whether Order's next release runs
  policy,     \* marketplace_policy_versions
  shop,       \* shop_policy_versions
  asking,     \* the row version for which each asker has collected the answers
  outbox,     \* policy_outbox: publications that were not delivered
  known,      \* policy_versions at Order
  shown,      \* what the buyer's last preview showed
  policyOrder \* the order's snapshot, when it was made and what the buyer named

policiesVars == <<now, released, policy, shop, asking, outbox, known, shown, policyOrder>>

PolicyRules == {"today", "next"}
NoVersion == [status |-> "none", effective |-> 0, rule |-> "today", ready |-> FALSE, row |-> 0]
NotAsking == [version |-> 0, row |-> 0, ready |-> FALSE]
NoVersions == [market |-> -1, shop |-> -1]
NoOrder == [versions |-> NoVersions, accepted |-> NoVersions, at |-> -1]

\* Order enforces the rule and says so.
RuleReadiness(rule) == rule = "today" \/ released

-----------------------------------------------------------------------------
(* Marketplace versions.                                                   *)

\* Text, rules and start are final.
CreateDraft(v, rule, effective) ==
  /\ policy[v].status = "none" /\ \A w \in PolicyVersions : w < v => policy[w].status # "none"
  /\ policy' = [policy EXCEPT ![v] = [NoVersion EXCEPT !.status = "draft", !.rule = rule, !.effective = effective]]
  /\ UNCHANGED <<now, released, shop, asking, outbox, known, shown, policyOrder>>

\* A draft that does not start in the past, or a version already preparing.
CanPublish(p) == (p.status = "draft" /\ p.effective >= now) \/ p.status = "preparing"

Publish(v) ==
  /\ CanPublish(policy[v])
  /\ policy' = [policy EXCEPT ![v].status = "preparing", ![v].row = @ + 1]
  /\ UNCHANGED <<now, released, shop, asking, outbox, known, shown, policyOrder>>

\* The rule owners are asked about the row as it was saved, by the request, or
\* listed, by the worker every 30 seconds.
RetryPreparing(asker, v) ==
  /\ policy[v].status = "preparing" /\ asking[asker] = NotAsking
  /\ asking' = [asking EXCEPT ![asker] = [version |-> v, row |-> policy[v].row, ready |-> RuleReadiness(policy[v].rule)]]
  /\ UNCHANGED <<now, released, policy, shop, outbox, known, shown, policyOrder>>

\* The answers count only for the row they were asked about.
SameRow(p, answer) == p.status = "preparing" /\ p.row = answer.row

\* No two published versions start at the same time.
StartTaken(v) == \E w \in PolicyVersions : policy[w].status = "published" /\ policy[w].effective = policy[v].effective

QueuePublication(scope, v, effective, rule) ==
  outbox' = outbox \cup {[scope |-> scope, version |-> v, effective |-> effective, rule |-> rule]}

completePublication(asker) ==
  LET answer == asking[asker]
      v == answer.version
      p == policy[v]
  IN  /\ answer # NotAsking
      /\ asking' = [asking EXCEPT ![asker] = NotAsking]
      /\ IF ~SameRow(p, answer) \/ (answer.ready /\ StartTaken(v)) \/ (p.ready = answer.ready /\ ~answer.ready)
         THEN UNCHANGED <<policy, outbox>>
         ELSE /\ policy' = [policy EXCEPT
                   ![v].ready = answer.ready, ![v].row = @ + 1,
                   ![v].status = IF answer.ready THEN "published" ELSE "preparing"]
              /\ IF answer.ready THEN QueuePublication("marketplace", v, p.effective, p.rule) ELSE UNCHANGED outbox
      /\ UNCHANGED <<now, released, shop, known, shown, policyOrder>>

Withdraw(v) ==
  /\ policy[v].status \in {"draft", "preparing"}
  /\ policy' = [policy EXCEPT ![v].status = "withdrawn", ![v].row = @ + 1]
  /\ UNCHANGED <<now, released, shop, asking, outbox, known, shown, policyOrder>>

-----------------------------------------------------------------------------
(* Shop versions.                                                          *)

\* One proposal waits at a time.
ProposeShopPolicy(n) ==
  /\ shop[n] = "none" /\ \A m \in ShopVersions : (m < n => shop[m] # "none") /\ shop[m] # "proposed"
  /\ shop' = [shop EXCEPT ![n] = "proposed"]
  /\ UNCHANGED <<now, released, policy, asking, outbox, known, shown, policyOrder>>

\* An approval publishes the text at once.
DecideShopPolicy(n, approve) ==
  /\ shop[n] = "proposed"
  /\ shop' = [shop EXCEPT ![n] = IF approve THEN "approved" ELSE "rejected"]
  /\ IF approve THEN QueuePublication("shop", n, now, "today") ELSE UNCHANGED outbox
  /\ UNCHANGED <<now, released, policy, asking, known, shown, policyOrder>>

-----------------------------------------------------------------------------
(* Order's copy.                                                           *)

\* A marketplace version that cites a rule Order does not enforce is refused.
ValidatePolicyVersion(m) == m.scope = "marketplace" => RuleReadiness(m.rule)

\* The broker stores the event, Order applies it once: deliveries repeat until
\* the outbox learns of one.
ApplyPolicyPublished(m, told) ==
  /\ m \in outbox /\ ValidatePolicyVersion(m)
  /\ known' = known \cup {m}
  /\ outbox' = IF told THEN outbox \ {m} ELSE outbox
  /\ UNCHANGED <<now, released, policy, shop, asking, shown, policyOrder>>

\* The version in force: the one that started last, 0 when there is none.
ActiveAt(scope, t) ==
  LET started == {m \in known : m.scope = scope /\ m.effective <= t}
      last == {m \in started : \A n \in started : n.effective < m.effective
                                 \/ (n.effective = m.effective /\ n.version <= m.version)}
  IN  IF last = {} THEN 0 ELSE (CHOOSE m \in last : TRUE).version

AcceptedVersions == [market |-> ActiveAt("marketplace", now), shop |-> ActiveAt("shop", now)]

Preview ==
  /\ policyOrder = NoOrder
  /\ shown' = AcceptedVersions /\ shown' # shown
  /\ UNCHANGED <<now, released, policy, shop, asking, outbox, known, policyOrder>>

SameMarket(accepted, current) == accepted.market = current.market

SameVersions(accepted, current) == accepted = current

\* The checkout fixes the versions in force.  Those that its request names must
\* be these; a request that names none is not asked.
snapshotPolicies(accepted) ==
  /\ policyOrder = NoOrder
  /\ accepted # NoVersions => SameVersions(accepted, AcceptedVersions)
  /\ policyOrder' = [versions |-> AcceptedVersions, accepted |-> accepted, at |-> now]
  /\ UNCHANGED <<now, released, policy, shop, asking, outbox, known, shown>>

-----------------------------------------------------------------------------
Tick ==
  /\ now < MaxTime /\ now' = now + 1
  /\ UNCHANGED <<released, policy, shop, asking, outbox, known, shown, policyOrder>>

Release ==
  /\ ~released /\ released' = TRUE
  /\ UNCHANGED <<now, policy, shop, asking, outbox, known, shown, policyOrder>>

PoliciesInit ==
  /\ now = 0 /\ released = FALSE
  /\ policy = [v \in PolicyVersions |-> NoVersion] /\ shop = [n \in ShopVersions |-> "none"]
  /\ asking = [a \in Askers |-> NotAsking] /\ outbox = {} /\ known = {}
  /\ shown = NoVersions /\ policyOrder = NoOrder

PoliciesNext ==
  \/ \E v \in PolicyVersions :
       \/ \E rule \in PolicyRules, effective \in 0 .. MaxTime : CreateDraft(v, rule, effective)
       \/ Publish(v) /\ policy[v].row < 2
       \/ Withdraw(v)
       \/ \E a \in Askers : RetryPreparing(a, v)
  \/ \E a \in Askers : completePublication(a)
  \/ \E n \in ShopVersions : ProposeShopPolicy(n) \/ \E approve \in BOOLEAN : DecideShopPolicy(n, approve)
  \/ \E m \in outbox, told \in BOOLEAN : ApplyPolicyPublished(m, told)
  \/ Preview \/ (\E accepted \in {shown, NoVersions} : snapshotPolicies(accepted)) \/ Tick \/ Release

PoliciesSpec == PoliciesInit /\ [][PoliciesNext]_policiesVars

-----------------------------------------------------------------------------
\* What Order knows is what Vendor published; and an order was placed under
\* versions that had started by then, each of them public and citing a rule that
\* Order enforces.  They are the ones its buyer was shown if the request named
\* any; a request without them gets the ones in force, shown or not (policies.go
\* snapshotPolicies).
OrderUnderShownPolicies ==
  /\ \A m \in known \cup outbox :
       IF m.scope = "shop" THEN shop[m.version] = "approved"
       ELSE policy[m.version].status = "published" /\ policy[m.version].effective = m.effective
                /\ RuleReadiness(m.rule)
  /\ policyOrder # NoOrder =>
       LET v == policyOrder.versions
       IN  /\ policyOrder.accepted \in {NoVersions, v}
           /\ v.market > 0 => /\ policy[v.market].status = "published"
                             /\ policy[v.market].effective <= policyOrder.at
                             /\ RuleReadiness(policy[v.market].rule)
           /\ v.shop > 0 => shop[v.shop] = "approved"

=============================================================================
