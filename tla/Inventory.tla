----------------------------- MODULE Inventory -----------------------------
(***************************************************************************)
(* The stock service: stock balances per item, one reservation operation   *)
(* per order, the ledger of stock movements and the outbox of expiry       *)
(* events.                                                                 *)
(*                                                                         *)
(* Every action is one database transaction of the Inventory service.  The *)
(* transactions on one order are serialised by an advisory lock and those  *)
(* on one item by its row lock, so each one is atomic here; what is free   *)
(* is their order: the callers (Order, the expiry worker, the vendors, the *)
(* admins) call in any order, repeat calls and call late.  A call that is  *)
(* refused or recognised as a repeat changes nothing: it is a stuttering   *)
(* step.                                                                   *)
(***************************************************************************)
EXTENDS Integers, FiniteSets, TLC

CONSTANTS
    Orders,         \* order ids
    Items,          \* stock items (a product without variants, or a variant)
    MaxLine,        \* largest quantity of one reservation line
    Carts,          \* normalised line sets a Reserve call can carry
    MaxStock,       \* largest on-hand quantity of an item (int64 in the code)
    Receipts,       \* ids of restock requests, returns, recoveries and counts
    MaxAttempts,    \* retries of an expiry or of an outbox row (10 in the code)
    ExpiryEnabled   \* INVENTORY_EXPIRY_ENABLED

(* The line set of an order without lines: what a tombstone holds.         *)
NoLines == [i \in Items |-> 0]

ASSUME MaxLineAssumption == MaxLine \in Nat
ASSUME MaxStockAssumption == MaxStock \in Nat
ASSUME MaxAttemptsAssumption == MaxAttempts \in Nat \ {0}
ASSUME OrdersAssumption == IsFiniteSet(Orders)
ASSUME CartsAssumption == Carts \subseteq [Items -> 0..MaxLine] \ {NoLines}
ASSUME ExpiryEnabledAssumption == ExpiryEnabled \in BOOLEAN

VARIABLES
    stocked,     \* items that have an inventory_items row
    available,   \* inventory_items.available_quantity
    reserved,    \* inventory_items.reserved_quantity
    op,          \* reservation_operations and its stock_reservations lines
    movements,   \* stock_movements
    outbox,      \* inventory_outbox: the ReservationExpired event of an order
    opening      \* history: per item, what migration 000005 found; never changes

stock == <<stocked, available, reserved>>
vars == <<stocked, available, reserved, op, movements, outbox, opening>>

OpStatuses == {"none", "held", "committed", "released", "expired"}

(* The kinds of operation_key; the unique index is on <item, key>.         *)
(* A return and a recovery are put back by one function, restock, and keyed *)
(* return:<id> and recovery:<id>: a receipt of kind "return" is either.     *)
RestockKinds == {"restock", "return"}
Keys == ({"initial"} \X Items) \cup ({"hold", "released", "committed", "expired"} \X Orders)
          \cup (({"count"} \cup RestockKinds) \X Receipts)

Operations == [status : OpStatuses, lines : [Items -> 0..MaxLine], due : BOOLEAN,
               legacy : BOOLEAN, attempts : 0..MaxAttempts]

Movements == [item : Items, key : Keys, change : Int, reservedChange : Int]

TypeOK ==
    /\ stocked \in SUBSET Items
    /\ available \in [Items -> Nat]
    /\ reserved \in [Items -> Nat]
    /\ op \in [Orders -> Operations]
    /\ movements \in SUBSET Movements
    /\ outbox \in [Orders -> [row : {"none", "pending", "delivered"}, attempts : 0..MaxAttempts]]

----------------------------------------------------------------------------
NoOperation == [status |-> "none", lines |-> NoLines, due |-> FALSE, legacy |-> FALSE, attempts |-> 0]

Tombstone == [status |-> "released", lines |-> NoLines, due |-> TRUE, legacy |-> FALSE, attempts |-> 0]

(* A reservation of the previous release; only a hold's deadline matters.  *)
LegacyHold(c, late) == [status |-> "held", lines |-> c, due |-> late, legacy |-> TRUE, attempts |-> 0]
LegacyEnd(c, target) == [status |-> target, lines |-> c, due |-> FALSE, legacy |-> TRUE, attempts |-> 0]
LegacyOperations ==
    {LegacyHold(c, late) : c \in Carts, late \in BOOLEAN}
      \cup {LegacyEnd(c, target) : c \in Carts, target \in {"committed", "released"}}

(* The units of item i that pending orders hold, one element per unit.     *)
HeldUnits(i) ==
    {p \in Orders \X (1..MaxLine) : op[p[1]].status = "held" /\ p[2] <= op[p[1]].lines[i]}

(* The units of item i that paid orders took, one element per unit.        *)
SoldUnits(i) ==
    {p \in Orders \X (1..MaxLine) : op[p[1]].status = "committed" /\ p[2] <= op[p[1]].lines[i]}

(* Migration 000005 turns the reservations of the previous release into    *)
(* legacy operations; it stops unless each order's lines agree.  It writes *)
(* no ledger row for what it finds: the rows of the previous release say   *)
(* nothing of reserved units and carry no operation_key, and the model     *)
(* leaves them out.                                                        *)
Init ==
    /\ stocked \in SUBSET Items
    /\ available \in [Items -> 0..MaxStock]
    /\ op \in [Orders -> {NoOperation} \cup LegacyOperations]
    /\ \A o \in Orders, i \in Items : op[o].lines[i] > 0 => i \in stocked
    /\ reserved = [i \in Items |-> Cardinality(HeldUnits(i))]
    /\ \A i \in Items : IF i \in stocked THEN available[i] + reserved[i] <= MaxStock ELSE available[i] = 0
    /\ movements = {}
    /\ outbox = [o \in Orders |-> [row |-> "none", attempts |-> 0]]
    /\ opening = [i \in Items |-> [available |-> available[i], reserved |-> reserved[i],
                                   sold |-> Cardinality(SoldUnits(i))]]

----------------------------------------------------------------------------
Recorded(k) == \E m \in movements : m.key = k

(* The movements one operation writes: one per line.                       *)
LineMovements(kind, o, c, sign, reservedSign) ==
    {[item |-> i, key |-> <<kind, o>>, change |-> sign * c[i], reservedChange |-> reservedSign * c[i]] :
        i \in {j \in Items : c[j] > 0}}

CreateItem(i, q) ==
    /\ i \notin stocked
    /\ stocked' = stocked \cup {i}
    /\ available' = [available EXCEPT ![i] = q]
    /\ movements' = movements \cup {[item |-> i, key |-> <<"initial", i>>, change |-> q, reservedChange |-> 0]}
    /\ UNCHANGED <<reserved, op, outbox>>

CanReserveReleased(o, c) ==
    op[o].status \in {"none", "released"} /\ \A i \in Items : c[i] > 0 => i \in stocked /\ c[i] <= available[i]

CanReserve(o, c) ==
    op[o].status = "none" /\ \A i \in Items : c[i] > 0 => i \in stocked /\ c[i] <= available[i]

(* Holds every line or none.  An order that already has an operation gets  *)
(* its stored lines back, or a conflict, and nothing changes.              *)
ReserveAtomic(o, c) ==
    /\ CanReserve(o, c)
    /\ available' = [i \in Items |-> available[i] - c[i]]
    /\ reserved' = [i \in Items |-> reserved[i] + c[i]]
    /\ op' = [op EXCEPT ![o] = [status |-> "held", lines |-> c, due |-> FALSE, legacy |-> FALSE, attempts |-> 0]]
    /\ movements' = movements \cup LineMovements("hold", o, c, -1, 1)
    /\ UNCHANGED <<stocked, outbox>>

(* Mutants of the parts of finish: end an operation twice; give sold units *)
(* back; write no ledger rows for a sale; keep an expiry to itself.        *)
FinishableTwice(o) == op[o].status # "none"
AlwaysBack(target) == 1
UnrecordedSale(o, target, back) ==
    IF target = "committed" THEN {} ELSE LineMovements(target, o, op[o].lines, back, -1)
Finishable(o) == op[o].status = "held"
UnitsBack(target) == IF target = "committed" THEN 0 ELSE 1
FinishMovements(o, target, back) == LineMovements(target, o, op[o].lines, back, -1)
Announced(target) == target = "expired"

(* Ends the hold of order o.  The update of each item is guarded by        *)
(* reserved_quantity >= line quantity; a failed guard rolls all back.      *)
finish(o, target) ==
    LET c == op[o].lines
        back == UnitsBack(target)
    IN  /\ Finishable(o)
        /\ \A i \in Items : reserved[i] >= c[i]
        /\ available' = [i \in Items |-> available[i] + back * c[i]]
        /\ reserved' = [i \in Items |-> reserved[i] - c[i]]
        /\ op' = [op EXCEPT ![o].status = target]
        /\ movements' = movements \cup FinishMovements(o, target, back)
        /\ outbox' = IF Announced(target) /\ outbox[o].row = "none"
                     THEN [outbox EXCEPT ![o].row = "pending"] ELSE outbox
        /\ UNCHANGED stocked

(* The 30 minutes of a hold run out.                                       *)
DeadlinePasses(o) ==
    /\ op[o].status = "held" /\ ~op[o].due
    /\ op' = [op EXCEPT ![o].due = TRUE]
    /\ UNCHANGED <<stocked, available, reserved, movements, outbox>>

CommitByOrderID(o) == ~op[o].due /\ finish(o, "committed")

(* Mutant: the tombstone overwrites a live hold.                           *)
TombstoneOverwrites(o) ==
    /\ op[o].status \in {"none", "held"}
    /\ op' = [op EXCEPT ![o] = Tombstone]
    /\ UNCHANGED <<stocked, available, reserved, movements, outbox>>

(* Releasing an order Inventory does not know leaves a tombstone.          *)
InsertTombstone(o) ==
    /\ op[o].status = "none"
    /\ op' = [op EXCEPT ![o] = Tombstone]
    /\ UNCHANGED <<stocked, available, reserved, movements, outbox>>

ReleaseByOrderID(o) == finish(o, "released") \/ InsertTombstone(o)

(* Mutant: an expiry that failed once is never tried again.                *)
ExpiryDueOnce(o) ==
    ExpiryEnabled /\ op[o].status = "held" /\ ~op[o].legacy /\ op[o].due /\ op[o].attempts = 0

ExpiryDue(o) ==
    /\ ExpiryEnabled
    /\ op[o].status = "held" /\ ~op[o].legacy /\ op[o].due /\ op[o].attempts < MaxAttempts

ExpireOne(o) == ExpiryDue(o) /\ finish(o, "expired")

(* The transaction of ExpireOne fails; the attempt is counted.             *)
ExpireFails(o) ==
    /\ ExpiryDue(o)
    /\ op' = [op EXCEPT ![o].attempts = @ + 1]
    /\ UNCHANGED <<stocked, available, reserved, movements, outbox>>

DispatchDue(o) == outbox[o].row = "pending" /\ outbox[o].attempts < MaxAttempts

Dispatch(o) ==
    /\ DispatchDue(o)
    /\ outbox' = [outbox EXCEPT ![o].row = "delivered"]
    /\ UNCHANGED <<stocked, available, reserved, op, movements>>

DispatchFails(o) ==
    /\ DispatchDue(o)
    /\ outbox' = [outbox EXCEPT ![o].attempts = @ + 1]
    /\ UNCHANGED <<stocked, available, reserved, op, movements>>

(* Audited admin repairs.  Order's status, which the first two also check, *)
(* is outside this module.                                                 *)
RepairReleaseCancelled(o) == finish(o, "released")

RepairAdoptLegacy(o) ==
    /\ op[o].status = "held" /\ ~op[o].due
    /\ op' = [op EXCEPT ![o].legacy = FALSE]
    /\ UNCHANGED <<stocked, available, reserved, movements, outbox>>

RepairReplay(o) ==
    /\ op[o].status # "none"
    /\ op' = [op EXCEPT ![o].attempts = 0]
    /\ outbox' = IF outbox[o].row = "none" THEN outbox
                 ELSE [outbox EXCEPT ![o] = [row |-> "pending", attempts |-> 0]]
    /\ UNCHANGED <<stocked, available, reserved, movements>>

(* Mutant: the int64 maximum is compared with the available units only.    *)
FitsAvailable(i, q) == available[i] + q <= MaxStock

FitsOnHand(i, q) == available[i] + reserved[i] + q <= MaxStock

(* Units come in once per return or recovery id, which are looked up by    *)
(* key alone, and once per item and restock request.                       *)
AlreadyIn(kind, r, i) == \E m \in movements : m.key = <<kind, r>> /\ (kind = "restock" => m.item = i)

Restock(kind, r, i, q) ==
    /\ i \in stocked
    /\ ~AlreadyIn(kind, r, i)
    /\ FitsOnHand(i, q)
    /\ available' = [available EXCEPT ![i] = @ + q]
    /\ movements' = movements \cup {[item |-> i, key |-> <<kind, r>>, change |-> q, reservedChange |-> 0]}
    /\ UNCHANGED <<stocked, reserved, op, outbox>>

(* A physical count only writes stock down and never touches held units.   *)
PlanStockCount(i, counted) == counted >= reserved[i] /\ counted - reserved[i] <= available[i]

RecordStockCount(r, i, counted) ==
    /\ i \in stocked
    /\ ~Recorded(<<"count", r>>)
    /\ PlanStockCount(i, counted)
    /\ available' = [available EXCEPT ![i] = counted - reserved[i]]
    /\ movements' = movements \cup {[item |-> i, key |-> <<"count", r>>,
                                     change |-> counted - reserved[i] - available[i], reservedChange |-> 0]}
    /\ UNCHANGED <<stocked, reserved, op, outbox>>

----------------------------------------------------------------------------
OrderCalls(o) ==
    \/ \E c \in Carts : ReserveAtomic(o, c)
    \/ CommitByOrderID(o)
    \/ ReleaseByOrderID(o)

Worker(o) == ExpireOne(o) \/ ExpireFails(o) \/ Dispatch(o) \/ DispatchFails(o)

AdminRepairs(o) == RepairReleaseCancelled(o) \/ RepairAdoptLegacy(o) \/ RepairReplay(o)

StockCalls ==
    \/ \E i \in Items, q \in 0..MaxStock : CreateItem(i, q)
    \/ \E kind \in RestockKinds, r \in Receipts, i \in Items, q \in 1..MaxStock : Restock(kind, r, i, q)
    \/ \E r \in Receipts, i \in Items, counted \in 0..MaxStock : RecordStockCount(r, i, counted)

Step ==
    \/ \E o \in Orders : OrderCalls(o) \/ DeadlinePasses(o) \/ Worker(o) \/ AdminRepairs(o)
    \/ StockCalls

Next == Step /\ UNCHANGED opening

Spec == Init /\ [][Next]_vars

----------------------------------------------------------------------------
(* The reserved balance of every item is exactly what the pending orders   *)
(* hold: Maintenance.Stats counts any difference as reserved_mismatches.   *)
ReservedMatchesHolds == \A i \in Items : reserved[i] = Cardinality(HeldUnits(i))

(* No order of calls pushes an item past the int64 maximum: the CHECK      *)
(* inventory_total_quantity_safe never fires inside a release.             *)
OnHandBounded == \A i \in Items : available[i] + reserved[i] <= MaxStock

(* A hold can always be ended: the "Reserved stock mismatch" conflict of   *)
(* finish() is unreachable, so no expiry or release is refused for it.     *)
HoldsCanFinish ==
    \A o \in Orders : op[o].status = "held" => \A i \in Items : reserved[i] >= op[o].lines[i]

(* Order hears of every hold that timed out, and only of those: the outbox *)
(* row exists exactly when the operation is expired.                       *)
ExpiryAnnounced == \A o \in Orders : op[o].status = "expired" <=> outbox[o].row # "none"

(* A finished or tombstoned operation never changes again, whatever late   *)
(* Reserve, Commit, Release or repair arrives for it.                      *)
FinishedStaysFinished ==
    [][\A o \in Orders : op[o].status \in {"committed", "released", "expired"}
          => op'[o].status = op[o].status /\ op'[o].lines = op[o].lines]_vars

(* Sums over the ledger.  A row <<m, n>> says that movement m changed a    *)
(* balance by n: n units of its own came in, or -n went out.               *)
UnitsIn(rows) == UNION {{r} \X (1 .. r[2]) : r \in rows}
UnitsOut(rows) == UNION {{r} \X (1 .. -r[2]) : r \in rows}
SumOf(rows) == Cardinality(UnitsIn(rows)) - Cardinality(UnitsOut(rows))

AvailableRows(ms) == {<<m, m.change>> : m \in ms}
ReservedRows(ms) == {<<m, m.reservedChange>> : m \in ms}
StockRows(ms) == {<<m, m.change + m.reservedChange>> : m \in ms}

MovementsOf(i) == {m \in movements : m.item = i}

(* The movements that bring units in or write them off, for no order.      *)
OwnKinds == {"initial", "count"} \cup RestockKinds
OwnMovements(i) == {m \in MovementsOf(i) : m.key[1] \in OwnKinds}

(* What the ledger says is what both balances moved by since migration     *)
(* 000005: no transaction moves stock without its stock_movements row or   *)
(* writes the row twice.  For an item created since, opening is zero and   *)
(* the ledger adds up to the balances; for an older one it does not, since *)
(* no row tells what was held when reserved_change was added.              *)
LedgerMatchesBalance ==
    \A i \in Items :
        /\ available[i] = opening[i].available + SumOf(AvailableRows(MovementsOf(i)))
        /\ reserved[i] = opening[i].reserved + SumOf(ReservedRows(MovementsOf(i)))

(* No unit is sold twice or lost: what was there and what came in (new     *)
(* items, restocks, returns, recoveries, less what counts wrote off) is    *)
(* what is on hand plus what paid orders took.                             *)
UnitsConserved ==
    \A i \in Items :
        available[i] + reserved[i] + Cardinality(SoldUnits(i))
          = opening[i].available + opening[i].reserved + opening[i].sold + SumOf(StockRows(OwnMovements(i)))

(* The stock movements explain how the balances moved, and no unit is lost. *)
StockExplained == LedgerMatchesBalance /\ UnitsConserved

(* Inventory keeps the promise Order relies on.                            *)
Promise == INSTANCE Reservation WITH receipt <- [o \in Orders |-> op[o].status]
ImplementsReservation == Promise!Spec

----------------------------------------------------------------------------
\* For TLC: two interchangeable orders that compete for two items, one of the
\* carts taking both items and one taking two units of the first.
MCCarts == {("i1" :> 1) @@ ("i2" :> 1), ("i1" :> 2) @@ ("i2" :> 0)}
Symmetry == Permutations(Orders)
=============================================================================
