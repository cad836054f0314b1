-------------------------- MODULE InventoryProofs --------------------------
(***************************************************************************)
(* Proofs about Inventory, for any number of orders and items, any carts   *)
(* and any bounds.                                                         *)
(***************************************************************************)
EXTENDS Inventory, FiniteSetTheorems, TLAPS

(* The units of one line: what order o holds of an item when its line has  *)
(* quantity n.                                                             *)
LineUnits(o, n) == {p \in Orders \X (1..MaxLine) : p[1] = o /\ p[2] <= n}

----------------------------------------------------------------------------
(* A line of quantity n is n units.                                        *)
LEMMA LineUnitsCardinality ==
    ASSUME NEW o \in Orders, NEW n \in 0..MaxLine
    PROVE  IsFiniteSet(LineUnits(o, n)) /\ Cardinality(LineUnits(o, n)) = n
<1> DEFINE f == [u \in 1..n |-> <<o, u>>]
<1>1. IsFiniteSet(1..n) /\ Cardinality(1..n) = n
  BY FS_Interval, MaxLineAssumption
<1>2. f \in [1..n -> LineUnits(o, n)]
  BY MaxLineAssumption DEF LineUnits
<1>3. \A a, b \in 1..n : f[a] = f[b] => a = b
  OBVIOUS
<1>4. \A p \in LineUnits(o, n) : \E u \in 1..n : f[u] = p
  BY MaxLineAssumption DEF LineUnits
<1>5. f \in Bijection(1..n, LineUnits(o, n))
  BY <1>2, <1>3, <1>4 DEF Bijection, Injection, Surjection, IsInjective
<1>6. ExistsBijection(1..n, LineUnits(o, n))
  BY <1>5 DEF ExistsBijection
<1> QED BY <1>1, <1>6, FS_Bijection

(* Only finitely many units can be held, since orders are finitely many.   *)
LEMMA HeldUnitsFinite ==
    ASSUME NEW i \in Items
    PROVE  IsFiniteSet(HeldUnits(i))
<1>1. IsFiniteSet(1..MaxLine)
  BY FS_Interval, MaxLineAssumption
<1>2. IsFiniteSet(Orders \X (1..MaxLine))
  BY <1>1, OrdersAssumption, FS_Product
<1> QED BY <1>2, FS_Subset DEF HeldUnits

(* A new hold adds exactly its line to the units held of an item.          *)
LEMMA HoldAddsLine ==
    ASSUME TypeOK, NEW o \in Orders, NEW c \in [Items -> 0..MaxLine], NEW i \in Items,
           op[o].status # "held", op'[o].status = "held", op'[o].lines = c,
           \A x \in Orders \ {o} : op'[x] = op[x]
    PROVE  Cardinality(HeldUnits(i)') = Cardinality(HeldUnits(i)) + c[i]
<1>1. HeldUnits(i)' = HeldUnits(i) \cup LineUnits(o, c[i])
  BY DEF HeldUnits, LineUnits
<1>2. HeldUnits(i) \cap LineUnits(o, c[i]) = {}
  BY DEF HeldUnits, LineUnits
<1>3. c[i] \in 0..MaxLine
  OBVIOUS
<1>4. IsFiniteSet(LineUnits(o, c[i])) /\ Cardinality(LineUnits(o, c[i])) = c[i]
  BY <1>3, LineUnitsCardinality
<1>5. IsFiniteSet(HeldUnits(i)) /\ Cardinality(HeldUnits(i)) \in Nat
  BY HeldUnitsFinite, FS_CardinalityType
<1>6. Cardinality(HeldUnits(i) \cup LineUnits(o, c[i]))
        = Cardinality(HeldUnits(i)) + Cardinality(LineUnits(o, c[i])) - Cardinality({})
  BY <1>2, <1>4, <1>5, FS_Union
<1>7. Cardinality({}) = 0
  BY FS_EmptySet
<1> QED BY <1>1, <1>3, <1>4, <1>5, <1>6, <1>7

(* The line of a held order is part of what is held of the item.           *)
LEMMA HeldLineBounded ==
    ASSUME TypeOK, NEW o \in Orders, NEW i \in Items, op[o].status = "held"
    PROVE  /\ op[o].lines[i] \in 0..MaxLine
           /\ LineUnits(o, op[o].lines[i]) \subseteq HeldUnits(i)
           /\ op[o].lines[i] <= Cardinality(HeldUnits(i))
<1>1. op[o].lines[i] \in 0..MaxLine
  BY DEF TypeOK, Operations
<1>2. LineUnits(o, op[o].lines[i]) \subseteq HeldUnits(i)
  BY DEF HeldUnits, LineUnits
<1>3. Cardinality(LineUnits(o, op[o].lines[i])) = op[o].lines[i]
  BY <1>1, LineUnitsCardinality
<1>4. Cardinality(LineUnits(o, op[o].lines[i])) <= Cardinality(HeldUnits(i))
  BY <1>2, HeldUnitsFinite, FS_Subset
<1> QED BY <1>1, <1>2, <1>3, <1>4

(* Ending a hold takes exactly its line out of the units held.             *)
LEMMA FinishRemovesLine ==
    ASSUME TypeOK, NEW o \in Orders, NEW i \in Items,
           op[o].status = "held", op'[o].status # "held",
           \A x \in Orders \ {o} : op'[x] = op[x]
    PROVE  Cardinality(HeldUnits(i)') = Cardinality(HeldUnits(i)) - op[o].lines[i]
<1> DEFINE line == LineUnits(o, op[o].lines[i])
<1>1. HeldUnits(i)' = HeldUnits(i) \ line
  BY DEF HeldUnits, LineUnits
<1>2. op[o].lines[i] \in 0..MaxLine /\ line \subseteq HeldUnits(i)
  BY HeldLineBounded
<1>3. Cardinality(line) = op[o].lines[i]
  BY <1>2, LineUnitsCardinality
<1>4. HeldUnits(i) \cap line = line
  BY <1>2
<1>5. Cardinality(HeldUnits(i) \ line) = Cardinality(HeldUnits(i)) - Cardinality(HeldUnits(i) \cap line)
  BY HeldUnitsFinite, FS_Difference
<1> QED BY <1>1, <1>3, <1>4, <1>5

(* A step that changes no operation's status or lines, or only of orders   *)
(* that hold nothing before and after, leaves the held units alone.        *)
LEMMA HeldUnitsUnchanged ==
    ASSUME NEW i \in Items,
           \A x \in Orders : \/ op'[x].status = op[x].status /\ op'[x].lines = op[x].lines
                             \/ op[x].status # "held" /\ op'[x].status # "held"
    PROVE  HeldUnits(i)' = HeldUnits(i)
BY DEF HeldUnits

----------------------------------------------------------------------------
(* Every state of the service is well typed: in particular no balance is   *)
(* ever negative.                                                          *)
LEMMA InitTypeOK == Init => TypeOK
<1> SUFFICES ASSUME Init PROVE TypeOK
  OBVIOUS
<1>1. stocked \in SUBSET Items /\ available \in [Items -> Nat]
  BY MaxStockAssumption DEF Init
<1>2. reserved \in [Items -> Nat]
  BY HeldUnitsFinite, FS_CardinalityType DEF Init
<1>3. op \in [Orders -> Operations]
  <2>1. NoOperation \in Operations
    BY MaxLineAssumption, MaxAttemptsAssumption DEF NoOperation, NoLines, Operations, OpStatuses
  <2>2. LegacyOperations \subseteq Operations
    <3>1. \A c \in Carts, late \in BOOLEAN : LegacyHold(c, late) \in Operations
      BY MaxAttemptsAssumption, CartsAssumption DEF LegacyHold, Operations, OpStatuses
    <3>2. \A c \in Carts, target \in {"committed", "released"} : LegacyEnd(c, target) \in Operations
      BY MaxAttemptsAssumption, CartsAssumption DEF LegacyEnd, Operations, OpStatuses
    <3> QED BY <3>1, <3>2 DEF LegacyOperations
  <2> QED BY <2>1, <2>2 DEF Init
<1>4. movements \in SUBSET Movements
  BY DEF Init
<1>5. outbox \in [Orders -> [row : {"none", "pending", "delivered"}, attempts : 0..MaxAttempts]]
  BY MaxAttemptsAssumption DEF Init
<1> QED BY <1>1, <1>2, <1>3, <1>4, <1>5 DEF TypeOK

(* The movements of an order's lines are ledger rows.                      *)
LEMMA LineMovementsType ==
    ASSUME NEW o \in Orders, NEW c \in [Items -> 0..MaxLine], NEW kind \in {"hold", "released", "committed", "expired"},
           NEW sign \in {-1, 0, 1}, NEW reservedSign \in {-1, 0, 1}
    PROVE  LineMovements(kind, o, c, sign, reservedSign) \subseteq Movements
<1>1. <<kind, o>> \in Keys
  BY DEF Keys
<1>2. \A i \in Items : sign * c[i] \in Int /\ reservedSign * c[i] \in Int
  BY MaxLineAssumption
<1> QED BY <1>1, <1>2 DEF LineMovements, Movements

(* finish keeps the types, whatever the target.                            *)
LEMMA FinishType ==
    ASSUME TypeOK, NEW o \in Orders, NEW target \in {"committed", "released", "expired"}, finish(o, target)
    PROVE  TypeOK'
<1> DEFINE c == op[o].lines
           back == UnitsBack(target)
<1>1. c \in [Items -> 0..MaxLine] /\ back \in {0, 1}
  BY DEF TypeOK, Operations, UnitsBack
<1>2. available' \in [Items -> Nat]
  <2>1. \A i \in Items : available[i] + back * c[i] \in Nat
    BY <1>1, MaxLineAssumption DEF TypeOK
  <2> QED BY <2>1 DEF finish
<1>3. reserved' \in [Items -> Nat]
  <2>1. \A i \in Items : reserved[i] - c[i] \in Nat
    BY <1>1, MaxLineAssumption DEF TypeOK, finish
  <2> QED BY <2>1 DEF finish
<1>4. op' \in [Orders -> Operations]
  BY DEF TypeOK, Operations, OpStatuses, finish
<1>5. movements' \in SUBSET Movements
  BY <1>1, LineMovementsType DEF TypeOK, finish, FinishMovements
<1>6. outbox' \in [Orders -> [row : {"none", "pending", "delivered"}, attempts : 0..MaxAttempts]]
  BY DEF TypeOK, finish
<1>7. stocked' \in SUBSET Items
  BY DEF TypeOK, finish
<1> QED BY <1>2, <1>3, <1>4, <1>5, <1>6, <1>7 DEF TypeOK

(* Every transaction of the stock service keeps the types; the balances    *)
(* stay natural numbers because of the guards of CanReserve and finish.    *)
LEMMA NextTypeOK == TypeOK /\ [Next]_vars => TypeOK'
<1> SUFFICES ASSUME TypeOK, [Next]_vars PROVE TypeOK'
  OBVIOUS
<1> USE MaxLineAssumption, MaxStockAssumption, MaxAttemptsAssumption
<1>1. ASSUME NEW o \in Orders, NEW c \in Carts, ReserveAtomic(o, c) PROVE TypeOK'
  <2>1. c \in [Items -> 0..MaxLine]
    BY CartsAssumption
  <2>2. available' \in [Items -> Nat]
    <3>1. \A i \in Items : available[i] - c[i] \in Nat
      BY <1>1, <2>1 DEF TypeOK, ReserveAtomic, CanReserve
    <3> QED BY <1>1, <3>1 DEF ReserveAtomic
  <2>3. reserved' \in [Items -> Nat]
    BY <1>1, <2>1 DEF TypeOK, ReserveAtomic
  <2>4. op' \in [Orders -> Operations]
    BY <1>1, <2>1 DEF TypeOK, Operations, OpStatuses, ReserveAtomic
  <2>5. movements' \in SUBSET Movements
    BY <1>1, <2>1, LineMovementsType DEF TypeOK, ReserveAtomic
  <2> QED BY <1>1, <2>2, <2>3, <2>4, <2>5 DEF TypeOK, ReserveAtomic
<1>2. ASSUME NEW o \in Orders, CommitByOrderID(o) PROVE TypeOK'
  BY <1>2, FinishType DEF CommitByOrderID
<1>3. ASSUME NEW o \in Orders, InsertTombstone(o) PROVE TypeOK'
  <2>1. Tombstone \in Operations
    BY DEF Tombstone, NoLines, Operations, OpStatuses
  <2> QED BY <1>3, <2>1 DEF InsertTombstone, TypeOK
<1>4. ASSUME NEW o \in Orders, ReleaseByOrderID(o) PROVE TypeOK'
  BY <1>3, <1>4, FinishType DEF ReleaseByOrderID
<1>5. ASSUME NEW o \in Orders, DeadlinePasses(o) PROVE TypeOK'
  <2>1. op[o] \in Operations
    BY DEF TypeOK
  <2>2. [op[o] EXCEPT !.due = TRUE] \in Operations
    BY <2>1 DEF Operations
  <2>3. op' = [op EXCEPT ![o] = [op[o] EXCEPT !.due = TRUE]]
    BY <1>5 DEF DeadlinePasses
  <2>4. op' \in [Orders -> Operations]
    BY <2>2, <2>3 DEF TypeOK
  <2> QED BY <1>5, <2>4 DEF DeadlinePasses, TypeOK
<1>6. ASSUME NEW o \in Orders, Worker(o) PROVE TypeOK'
  <2>1. CASE ExpireOne(o)
    BY <2>1, FinishType DEF ExpireOne
  <2>2. CASE ExpireFails(o)
    <3>1. op[o] \in Operations
      BY DEF TypeOK
    <3>2. [op[o] EXCEPT !.attempts = op[o].attempts + 1] \in Operations
      BY <2>2, <3>1 DEF Operations, ExpireFails, ExpiryDue
    <3>3. op' = [op EXCEPT ![o] = [op[o] EXCEPT !.attempts = op[o].attempts + 1]]
      BY <2>2 DEF ExpireFails
    <3>4. op' \in [Orders -> Operations]
      BY <3>2, <3>3 DEF TypeOK
    <3> QED BY <2>2, <3>4 DEF ExpireFails, TypeOK
  <2>3. CASE Dispatch(o)
    BY <2>3 DEF Dispatch, TypeOK
  <2>4. CASE DispatchFails(o)
    <3> DEFINE Rows == [row : {"none", "pending", "delivered"}, attempts : 0..MaxAttempts]
    <3>1. outbox[o] \in Rows
      BY DEF TypeOK
    <3>2. [outbox[o] EXCEPT !.attempts = outbox[o].attempts + 1] \in Rows
      BY <2>4, <3>1 DEF DispatchFails, DispatchDue
    <3>3. outbox' = [outbox EXCEPT ![o] = [outbox[o] EXCEPT !.attempts = outbox[o].attempts + 1]]
      BY <2>4 DEF DispatchFails
    <3>4. outbox' \in [Orders -> Rows]
      BY <3>2, <3>3 DEF TypeOK
    <3> QED BY <2>4, <3>4 DEF DispatchFails, TypeOK
  <2> QED BY <1>6, <2>1, <2>2, <2>3, <2>4 DEF Worker
<1>7. ASSUME NEW o \in Orders, AdminRepairs(o) PROVE TypeOK'
  <2>1. CASE RepairReleaseCancelled(o)
    BY <2>1, FinishType DEF RepairReleaseCancelled
  <2>2. CASE RepairAdoptLegacy(o)
    <3>1. op[o] \in Operations
      BY DEF TypeOK
    <3>2. [op[o] EXCEPT !.legacy = FALSE] \in Operations
      BY <3>1 DEF Operations
    <3>3. op' = [op EXCEPT ![o] = [op[o] EXCEPT !.legacy = FALSE]]
      BY <2>2 DEF RepairAdoptLegacy
    <3>4. op' \in [Orders -> Operations]
      BY <3>2, <3>3 DEF TypeOK
    <3> QED BY <2>2, <3>4 DEF RepairAdoptLegacy, TypeOK
  <2>3. CASE RepairReplay(o)
    <3>1. op' \in [Orders -> Operations]
      <4>1. op[o] \in Operations
        BY DEF TypeOK
      <4>2. [op[o] EXCEPT !.attempts = 0] \in Operations
        BY <4>1 DEF Operations
      <4>3. op' = [op EXCEPT ![o] = [op[o] EXCEPT !.attempts = 0]]
        BY <2>3 DEF RepairReplay
      <4> QED BY <4>2, <4>3 DEF TypeOK
    <3>2. outbox' \in [Orders -> [row : {"none", "pending", "delivered"}, attempts : 0..MaxAttempts]]
      BY <2>3 DEF RepairReplay, TypeOK
    <3> QED BY <2>3, <3>1, <3>2 DEF RepairReplay, TypeOK
  <2> QED BY <1>7, <2>1, <2>2, <2>3 DEF AdminRepairs
<1>8. ASSUME NEW i \in Items, NEW q \in 0..MaxStock, CreateItem(i, q) PROVE TypeOK'
  <2>1. [item |-> i, key |-> <<"initial", i>>, change |-> q, reservedChange |-> 0] \in Movements
    BY DEF Movements, Keys
  <2> QED BY <1>8, <2>1 DEF CreateItem, TypeOK
<1>9. ASSUME NEW kind \in RestockKinds, NEW r \in Receipts, NEW i \in Items, NEW q \in 1..MaxStock,
             Restock(kind, r, i, q)
      PROVE  TypeOK'
  <2>1. [item |-> i, key |-> <<kind, r>>, change |-> q, reservedChange |-> 0] \in Movements
    BY DEF Movements, Keys
  <2> QED BY <1>9, <2>1 DEF Restock, TypeOK
<1>10. ASSUME NEW r \in Receipts, NEW i \in Items, NEW counted \in 0..MaxStock, RecordStockCount(r, i, counted)
       PROVE  TypeOK'
  <2>1. [item |-> i, key |-> <<"count", r>>,
         change |-> counted - reserved[i] - available[i], reservedChange |-> 0] \in Movements
    BY DEF Movements, Keys, TypeOK
  <2>2. counted - reserved[i] \in Nat
    BY <1>10 DEF RecordStockCount, PlanStockCount, TypeOK
  <2> QED BY <1>10, <2>1, <2>2 DEF RecordStockCount, TypeOK
<1>11. CASE UNCHANGED vars
  BY <1>11 DEF vars, TypeOK
<1> QED
  BY <1>1, <1>2, <1>4, <1>5, <1>6, <1>7, <1>8, <1>9, <1>10, <1>11 DEF Next, Step, OrderCalls, StockCalls

(* Type correctness of the stock service.                                  *)
THEOREM TypeCorrect == Spec => []TypeOK
BY InitTypeOK, NextTypeOK, PTL DEF Spec

----------------------------------------------------------------------------
(* Only stocked items are held, so an item that is created later starts    *)
(* with nothing reserved.                                                  *)
HeldAreStocked ==
    \A o \in Orders, i \in Items : op[o].status = "held" /\ op[o].lines[i] > 0 => i \in stocked

(* The inductive invariant: reserved_quantity is what is held, which makes *)
(* the guard of finish true; the total fits, which needs the third part    *)
(* when an item is created.                                                *)
StockInv == TypeOK /\ ReservedMatchesHolds /\ HeldAreStocked /\ OnHandBounded

(* An item nobody stocked has nothing reserved.                            *)
LEMMA UnstockedUnreserved ==
    ASSUME TypeOK, ReservedMatchesHolds, HeldAreStocked, NEW i \in Items, i \notin stocked
    PROVE  reserved[i] = 0
<1>1. HeldUnits(i) = {}
  <2> SUFFICES ASSUME NEW p \in HeldUnits(i) PROVE FALSE
    OBVIOUS
  <2>1. p[1] \in Orders /\ p[2] \in 1..MaxLine /\ op[p[1]].status = "held" /\ p[2] <= op[p[1]].lines[i]
    BY DEF HeldUnits
  <2>2. op[p[1]].lines[i] \in 0..MaxLine
    BY <2>1 DEF TypeOK, Operations
  <2> QED BY <2>1, <2>2, MaxLineAssumption DEF HeldAreStocked
<1> QED BY <1>1, FS_EmptySet DEF ReservedMatchesHolds

(* What migration 000005 leaves behind satisfies the invariant.            *)
LEMMA InitStockInv == Init => StockInv
<1> SUFFICES ASSUME Init PROVE StockInv
  OBVIOUS
<1>1. TypeOK
  BY InitTypeOK
<1>2. ReservedMatchesHolds
  BY DEF Init, ReservedMatchesHolds
<1>3. HeldAreStocked
  BY DEF Init, HeldAreStocked
<1>4. OnHandBounded
  <2> SUFFICES ASSUME NEW i \in Items PROVE available[i] + reserved[i] <= MaxStock
    BY DEF OnHandBounded
  <2>1. CASE i \in stocked
    BY <2>1 DEF Init
  <2>2. CASE i \notin stocked
    BY <1>1, <1>2, <1>3, <2>2, UnstockedUnreserved, MaxStockAssumption DEF Init
  <2> QED BY <2>1, <2>2
<1> QED BY <1>1, <1>2, <1>3, <1>4 DEF StockInv

(* finish takes a held line out of both sides of the equation.             *)
LEMMA FinishStockInv ==
    ASSUME StockInv, TypeOK', NEW o \in Orders, NEW target \in {"committed", "released", "expired"}, finish(o, target)
    PROVE  StockInv'
<1> USE MaxLineAssumption, MaxStockAssumption
<1>1. TypeOK /\ op[o].status = "held" /\ op'[o].status = target /\ op'[o].lines = op[o].lines
  BY DEF StockInv, finish, Finishable, TypeOK, Operations
<1>2. \A x \in Orders \ {o} : op'[x] = op[x]
  BY <1>1 DEF finish, TypeOK
<1>3. \A i \in Items : op[o].lines[i] \in 0..MaxLine
  BY <1>1 DEF TypeOK, Operations
<1>4. ReservedMatchesHolds'
  <2> SUFFICES ASSUME NEW i \in Items PROVE reserved'[i] = Cardinality(HeldUnits(i)')
    BY DEF ReservedMatchesHolds
  <2>1. Cardinality(HeldUnits(i)') = Cardinality(HeldUnits(i)) - op[o].lines[i]
    BY <1>1, <1>2, FinishRemovesLine
  <2>2. reserved'[i] = reserved[i] - op[o].lines[i]
    BY DEF finish
  <2> QED BY <2>1, <2>2 DEF StockInv, ReservedMatchesHolds
<1>5. HeldAreStocked'
  BY <1>1, <1>2 DEF StockInv, HeldAreStocked, finish
<1>6. OnHandBounded'
  <2> SUFFICES ASSUME NEW i \in Items PROVE available'[i] + reserved'[i] <= MaxStock
    BY DEF OnHandBounded
  <2>1. reserved'[i] = reserved[i] - op[o].lines[i]
    BY DEF finish
  <2>2. available'[i] = available[i] + UnitsBack(target) * op[o].lines[i]
    BY DEF finish
  <2>3. available'[i] <= available[i] + op[o].lines[i]
    BY <1>1, <1>3, <2>2 DEF UnitsBack, TypeOK
  <2>4. available[i] \in Nat /\ reserved[i] \in Nat /\ available'[i] \in Nat
    BY <1>1 DEF TypeOK
  <2>5. available[i] + reserved[i] <= MaxStock
    BY DEF StockInv, OnHandBounded
  <2> QED BY <1>3, <2>1, <2>3, <2>4, <2>5
<1> QED BY <1>4, <1>5, <1>6 DEF StockInv

(* Every transaction keeps reserved_quantity equal to what is held, and the *)
(* total within its bound.                                                 *)
LEMMA NextStockInv == StockInv /\ [Next]_vars => StockInv'
<1> SUFFICES ASSUME StockInv, [Next]_vars PROVE StockInv'
  OBVIOUS
<1> USE MaxLineAssumption, MaxStockAssumption
<1>1. TypeOK /\ TypeOK'
  BY NextTypeOK DEF StockInv
<1>2. ASSUME NEW o \in Orders, NEW c \in Carts, ReserveAtomic(o, c) PROVE StockInv'
  <2>1. c \in [Items -> 0..MaxLine]
    BY CartsAssumption
  <2>2. op[o].status # "held" /\ op'[o].status = "held" /\ op'[o].lines = c
    BY <1>1, <1>2 DEF ReserveAtomic, CanReserve, TypeOK
  <2>3. \A x \in Orders \ {o} : op'[x] = op[x]
    BY <1>1, <1>2 DEF ReserveAtomic, TypeOK
  <2>4. \A i \in Items : available'[i] = available[i] - c[i] /\ reserved'[i] = reserved[i] + c[i]
    BY <1>2 DEF ReserveAtomic
  <2>5. ReservedMatchesHolds'
    <3> SUFFICES ASSUME NEW i \in Items PROVE reserved'[i] = Cardinality(HeldUnits(i)')
      BY DEF ReservedMatchesHolds
    <3>1. Cardinality(HeldUnits(i)') = Cardinality(HeldUnits(i)) + c[i]
      BY <1>1, <2>1, <2>2, <2>3, HoldAddsLine
    <3> QED BY <2>4, <3>1 DEF StockInv, ReservedMatchesHolds
  <2>6. HeldAreStocked'
    BY <1>2, <2>2, <2>3 DEF StockInv, HeldAreStocked, ReserveAtomic, CanReserve
  <2>7. OnHandBounded'
    BY <1>1, <2>1, <2>4 DEF StockInv, OnHandBounded, TypeOK
  <2> QED BY <1>1, <2>5, <2>6, <2>7 DEF StockInv
<1>3. ASSUME \A x \in Orders : \/ op'[x].status = op[x].status /\ op'[x].lines = op[x].lines
                               \/ op[x].status # "held" /\ op'[x].status # "held",
             reserved' = reserved
      PROVE  ReservedMatchesHolds'
  <2> SUFFICES ASSUME NEW i \in Items PROVE reserved'[i] = Cardinality(HeldUnits(i)')
    BY DEF ReservedMatchesHolds
  <2>1. HeldUnits(i)' = HeldUnits(i)
    BY <1>3, HeldUnitsUnchanged
  <2> QED BY <1>3, <2>1 DEF StockInv, ReservedMatchesHolds
<1>4. ASSUME NEW o \in Orders, InsertTombstone(o) PROVE StockInv'
  <2>1. \A x \in Orders : \/ op'[x].status = op[x].status /\ op'[x].lines = op[x].lines
                          \/ op[x].status # "held" /\ op'[x].status # "held"
    BY <1>1, <1>4 DEF InsertTombstone, Tombstone, TypeOK
  <2>2. ReservedMatchesHolds'
    BY <1>3, <1>4, <2>1 DEF InsertTombstone
  <2>3. HeldAreStocked' /\ OnHandBounded'
    BY <1>4, <2>1 DEF InsertTombstone, StockInv, HeldAreStocked, OnHandBounded
  <2> QED BY <1>1, <2>2, <2>3 DEF StockInv
(* Steps that touch the deadline, the flags or the outbox only.            *)
<1>5. ASSUME \A x \in Orders : op'[x].status = op[x].status /\ op'[x].lines = op[x].lines,
             UNCHANGED <<stocked, available, reserved>>
      PROVE  StockInv'
  <2>1. ReservedMatchesHolds'
    BY <1>3, <1>5
  <2>2. HeldAreStocked' /\ OnHandBounded'
    BY <1>5 DEF StockInv, HeldAreStocked, OnHandBounded
  <2> QED BY <1>1, <2>1, <2>2 DEF StockInv
<1>6. ASSUME NEW o \in Orders, OrderCalls(o) PROVE StockInv'
  BY <1>1, <1>2, <1>4, <1>6, FinishStockInv DEF OrderCalls, CommitByOrderID, ReleaseByOrderID
<1>7. ASSUME NEW o \in Orders, DeadlinePasses(o) PROVE StockInv'
  BY <1>1, <1>5, <1>7 DEF DeadlinePasses, TypeOK, Operations
<1>8. ASSUME NEW o \in Orders, Worker(o) PROVE StockInv'
  <2>1. CASE ExpireOne(o)
    BY <1>1, <2>1, FinishStockInv DEF ExpireOne
  <2>2. CASE ExpireFails(o)
    BY <1>1, <1>5, <2>2 DEF ExpireFails, TypeOK, Operations
  <2>3. CASE Dispatch(o) \/ DispatchFails(o)
    BY <1>5, <2>3 DEF Dispatch, DispatchFails
  <2> QED BY <1>8, <2>1, <2>2, <2>3 DEF Worker
<1>9. ASSUME NEW o \in Orders, AdminRepairs(o) PROVE StockInv'
  <2>1. CASE RepairReleaseCancelled(o)
    BY <1>1, <2>1, FinishStockInv DEF RepairReleaseCancelled
  <2>2. CASE RepairAdoptLegacy(o)
    BY <1>1, <1>5, <2>2 DEF RepairAdoptLegacy, TypeOK, Operations
  <2>3. CASE RepairReplay(o)
    BY <1>1, <1>5, <2>3 DEF RepairReplay, TypeOK, Operations
  <2> QED BY <1>9, <2>1, <2>2, <2>3 DEF AdminRepairs
<1>10. ASSUME NEW i \in Items, NEW q \in 0..MaxStock, CreateItem(i, q) PROVE StockInv'
  <2>1. ReservedMatchesHolds'
    BY <1>3, <1>10 DEF CreateItem
  <2>2. HeldAreStocked'
    BY <1>10 DEF CreateItem, StockInv, HeldAreStocked
  <2>3. reserved[i] = 0
    BY <1>1, <1>10, UnstockedUnreserved DEF CreateItem, StockInv
  <2>4. OnHandBounded'
    BY <1>1, <1>10, <2>3 DEF CreateItem, StockInv, OnHandBounded, TypeOK
  <2> QED BY <1>1, <2>1, <2>2, <2>4 DEF StockInv
<1>11. ASSUME NEW kind \in RestockKinds, NEW r \in Receipts, NEW i \in Items, NEW q \in 1..MaxStock,
              Restock(kind, r, i, q)
       PROVE  StockInv'
  <2>1. ReservedMatchesHolds' /\ HeldAreStocked'
    BY <1>3, <1>11 DEF Restock, StockInv, HeldAreStocked
  <2>2. OnHandBounded'
    BY <1>1, <1>11 DEF Restock, FitsOnHand, StockInv, OnHandBounded, TypeOK
  <2> QED BY <1>1, <2>1, <2>2 DEF StockInv
<1>12. ASSUME NEW r \in Receipts, NEW i \in Items, NEW counted \in 0..MaxStock, RecordStockCount(r, i, counted)
       PROVE  StockInv'
  <2>1. ReservedMatchesHolds' /\ HeldAreStocked'
    BY <1>3, <1>12 DEF RecordStockCount, StockInv, HeldAreStocked
  <2>2. OnHandBounded'
    BY <1>1, <1>12 DEF RecordStockCount, StockInv, OnHandBounded, TypeOK
  <2> QED BY <1>1, <2>1, <2>2 DEF StockInv
<1>13. CASE UNCHANGED vars
  BY <1>5, <1>13 DEF vars
<1> QED
  BY <1>6, <1>7, <1>8, <1>9, <1>10, <1>11, <1>12, <1>13 DEF Next, Step, StockCalls

(* The invariant holds in every reachable state.                           *)
THEOREM StockInvariant == Spec => []StockInv
BY InitStockInv, NextStockInv, PTL DEF Spec

(* reserved_quantity is exactly what pending orders hold: the counter      *)
(* reserved_mismatches of Maintenance.Stats stays zero.                    *)
THEOREM ReservedAlwaysMatches == Spec => []ReservedMatchesHolds
<1>1. StockInv => ReservedMatchesHolds
  BY DEF StockInv
<1> QED BY <1>1, StockInvariant, PTL

(* No order of calls takes an item past the int64 maximum.                 *)
THEOREM OnHandAlwaysBounded == Spec => []OnHandBounded
<1>1. StockInv => OnHandBounded
  BY DEF StockInv
<1> QED BY <1>1, StockInvariant, PTL

(* The guard of finish never fails for a held operation, so a release or   *)
(* an expiry is never refused with "Reserved stock mismatch".              *)
THEOREM HoldsCanAlwaysFinish == Spec => []HoldsCanFinish
<1>1. StockInv => HoldsCanFinish
  <2> SUFFICES ASSUME StockInv, NEW o \in Orders, op[o].status = "held", NEW i \in Items
               PROVE  reserved[i] >= op[o].lines[i]
    BY DEF HoldsCanFinish
  <2>1. TypeOK
    BY DEF StockInv
  <2>2. op[o].lines[i] <= Cardinality(HeldUnits(i)) /\ op[o].lines[i] \in 0..MaxLine
    BY <2>1, HeldLineBounded
  <2>3. reserved[i] = Cardinality(HeldUnits(i)) /\ reserved[i] \in Nat
    BY <2>1 DEF StockInv, ReservedMatchesHolds, TypeOK
  <2> QED BY <2>2, <2>3, MaxLineAssumption
<1> QED BY <1>1, StockInvariant, PTL

----------------------------------------------------------------------------
(* What one step does to one operation: nothing, a new hold, the end of a  *)
(* hold, or a tombstone.  Lines change only where there was no operation.  *)
OpStep(o) ==
    \/ op'[o].status = op[o].status /\ op'[o].lines = op[o].lines
    \/ op[o].status = "none" /\ op'[o].status \in {"held", "released"}
    \/ op[o].status = "held" /\ op'[o].status \in {"committed", "released", "expired"} /\ op'[o].lines = op[o].lines

(* A step of the service changes the status and lines of at most one       *)
(* operation, and that one only along OpStep.                              *)
OneOpStep ==
    \/ \A x \in Orders : op'[x].status = op[x].status /\ op'[x].lines = op[x].lines
    \/ \E o \in Orders : OpStep(o) /\ \A x \in Orders \ {o} : op'[x] = op[x]

(* finish ends the hold of its order and touches no other operation.       *)
LEMMA FinishOpStep ==
    ASSUME TypeOK, NEW o \in Orders, NEW target \in {"committed", "released", "expired"}, finish(o, target)
    PROVE  OneOpStep
<1>1. op[o].status = "held" /\ op'[o].status = target /\ op'[o].lines = op[o].lines
  BY DEF finish, Finishable, TypeOK, Operations
<1>2. \A x \in Orders \ {o} : op'[x] = op[x]
  BY DEF finish, TypeOK
<1> QED BY <1>1, <1>2 DEF OneOpStep, OpStep

(* Every transaction moves at most one operation, along the lines OneOpStep *)
(* allows.                                                                 *)
LEMMA NextOpStep == TypeOK /\ [Next]_vars => OneOpStep
<1> SUFFICES ASSUME TypeOK, [Next]_vars PROVE OneOpStep
  OBVIOUS
<1>1. ASSUME NEW o \in Orders, NEW c \in Carts, ReserveAtomic(o, c) PROVE OneOpStep
  <2>1. op[o].status = "none" /\ op'[o].status = "held"
    BY <1>1 DEF ReserveAtomic, CanReserve, TypeOK
  <2>2. \A x \in Orders \ {o} : op'[x] = op[x]
    BY <1>1 DEF ReserveAtomic, TypeOK
  <2> QED BY <2>1, <2>2 DEF OneOpStep, OpStep
<1>2. ASSUME NEW o \in Orders, InsertTombstone(o) PROVE OneOpStep
  <2>1. op[o].status = "none" /\ op'[o].status = "released"
    BY <1>2 DEF InsertTombstone, Tombstone, TypeOK
  <2>2. \A x \in Orders \ {o} : op'[x] = op[x]
    BY <1>2 DEF InsertTombstone, TypeOK
  <2> QED BY <2>1, <2>2 DEF OneOpStep, OpStep
<1>3. ASSUME NEW o \in Orders, OrderCalls(o) PROVE OneOpStep
  BY <1>1, <1>2, <1>3, FinishOpStep DEF OrderCalls, CommitByOrderID, ReleaseByOrderID
<1>4. ASSUME NEW o \in Orders, DeadlinePasses(o) \/ ExpireFails(o) \/ RepairAdoptLegacy(o) \/ RepairReplay(o)
      PROVE  OneOpStep
  <2>1. \A x \in Orders : op'[x].status = op[x].status /\ op'[x].lines = op[x].lines
    <3>1. CASE DeadlinePasses(o)
      BY <3>1 DEF DeadlinePasses, TypeOK, Operations
    <3>2. CASE ExpireFails(o)
      BY <3>2 DEF ExpireFails, TypeOK, Operations
    <3>3. CASE RepairAdoptLegacy(o)
      BY <3>3 DEF RepairAdoptLegacy, TypeOK, Operations
    <3>4. CASE RepairReplay(o)
      BY <3>4 DEF RepairReplay, TypeOK, Operations
    <3> QED BY <1>4, <3>1, <3>2, <3>3, <3>4
  <2> QED BY <2>1 DEF OneOpStep
<1>5. ASSUME UNCHANGED op PROVE OneOpStep
  BY <1>5 DEF OneOpStep
<1>6. ASSUME NEW o \in Orders, Worker(o) PROVE OneOpStep
  <2>1. CASE ExpireOne(o)
    BY <2>1, FinishOpStep DEF ExpireOne
  <2>2. CASE Dispatch(o) \/ DispatchFails(o)
    BY <1>5, <2>2 DEF Dispatch, DispatchFails
  <2> QED BY <1>4, <1>6, <2>1, <2>2 DEF Worker
<1>7. ASSUME NEW o \in Orders, AdminRepairs(o) PROVE OneOpStep
  BY <1>4, <1>7, FinishOpStep DEF AdminRepairs, RepairReleaseCancelled
<1>8. CASE StockCalls
  BY <1>5, <1>8 DEF StockCalls, CreateItem, Restock, RecordStockCount
<1>9. CASE UNCHANGED vars
  BY <1>5, <1>9 DEF vars
<1> QED BY <1>3, <1>4, <1>6, <1>7, <1>8, <1>9 DEF Next, Step

(* A late Reserve, Commit, Release or repair never changes an operation    *)
(* that is committed, released, tombstoned or expired.                     *)
THEOREM FinishedIsFinal == Spec => FinishedStaysFinished
<1>1. ASSUME TypeOK, [Next]_vars, NEW o \in Orders, op[o].status \in {"committed", "released", "expired"}
      PROVE  op'[o].status = op[o].status /\ op'[o].lines = op[o].lines
  BY <1>1, NextOpStep DEF OneOpStep, OpStep
<1>2. TypeOK /\ [Next]_vars
        => [\A o \in Orders : op[o].status \in {"committed", "released", "expired"}
               => op'[o].status = op[o].status /\ op'[o].lines = op[o].lines]_vars
  BY <1>1
<1> QED BY <1>2, TypeCorrect, PTL DEF Spec, FinishedStaysFinished

----------------------------------------------------------------------------
(* The receipt Order sees is the status of the operation.                  *)
receiptOf == [o \in Orders |-> op[o].status]

(* Inventory keeps the promise of module Reservation: the modules of the   *)
(* Order service that are written against it hold for the real service.    *)
THEOREM Refinement == Spec => ImplementsReservation
<1>1. Init => Promise!Init
  <2> SUFFICES ASSUME Init PROVE Promise!Init
    OBVIOUS
  <2>1. TypeOK
    BY InitTypeOK
  <2>2. receiptOf \in [Orders -> Promise!Statuses]
    BY <2>1 DEF receiptOf, TypeOK, Operations, OpStatuses, Promise!Statuses
  <2> QED BY <2>2 DEF Promise!Init, receiptOf
<1>2. TypeOK /\ [Next]_vars => [Promise!Next]_receiptOf
  <2> SUFFICES ASSUME TypeOK, [Next]_vars PROVE [Promise!Next]_receiptOf
    OBVIOUS
  <2>1. OneOpStep
    BY NextOpStep
  <2>2. CASE \A x \in Orders : op'[x].status = op[x].status /\ op'[x].lines = op[x].lines
    BY <2>2 DEF receiptOf
  <2>3. ASSUME NEW o \in Orders, OpStep(o), \A x \in Orders \ {o} : op'[x] = op[x]
        PROVE  [Promise!Next]_receiptOf
    <3>1. receiptOf' = [receiptOf EXCEPT ![o] = op'[o].status]
      BY <2>3 DEF receiptOf
    <3>2. CASE op'[o].status = op[o].status
      BY <2>3, <3>2 DEF receiptOf
    <3>3. CASE op[o].status = "none" /\ op'[o].status = "held"
      <4>1. Promise!Hold(o)
        BY <3>1, <3>3 DEF Promise!Hold, receiptOf
      <4> QED BY <4>1 DEF Promise!Next
    <3>4. CASE op[o].status \in {"none", "held"} /\ op'[o].status = "released"
      <4>1. Promise!Release(o)
        BY <3>1, <3>4 DEF Promise!Release, receiptOf
      <4> QED BY <4>1 DEF Promise!Next
    <3>5. CASE op[o].status = "held" /\ op'[o].status = "committed"
      <4>1. Promise!Commit(o)
        BY <3>1, <3>5 DEF Promise!Commit, receiptOf
      <4> QED BY <4>1 DEF Promise!Next
    <3>6. CASE op[o].status = "held" /\ op'[o].status = "expired"
      <4>1. Promise!Expire(o)
        BY <3>1, <3>6 DEF Promise!Expire, receiptOf
      <4> QED BY <4>1 DEF Promise!Next
    <3> QED BY <2>3, <3>2, <3>3, <3>4, <3>5, <3>6 DEF OpStep
  <2> QED BY <2>1, <2>2, <2>3 DEF OneOpStep
<1> QED BY <1>1, <1>2, TypeCorrect, PTL DEF Spec, ImplementsReservation, Promise!Spec, receiptOf

----------------------------------------------------------------------------
(* The outbox row is written with the expiry and by nothing else.          *)
LEMMA NextExpiryAnnounced == TypeOK /\ ExpiryAnnounced /\ [Next]_vars => ExpiryAnnounced'
<1> SUFFICES ASSUME TypeOK, ExpiryAnnounced, [Next]_vars PROVE ExpiryAnnounced'
  OBVIOUS
<1>1. ASSUME NEW o \in Orders, NEW target \in {"committed", "released", "expired"}, finish(o, target)
      PROVE  ExpiryAnnounced'
  <2>1. op[o].status = "held" /\ op'[o].status = target /\ (\A x \in Orders \ {o} : op'[x] = op[x])
    BY <1>1 DEF finish, Finishable, TypeOK, Operations
  <2>2. \A x \in Orders \ {o} : outbox'[x] = outbox[x]
    BY <1>1 DEF finish, TypeOK
  <2>3. outbox[o].row = "none"
    BY <2>1 DEF ExpiryAnnounced
  <2>4. outbox'[o].row # "none" <=> target = "expired"
    BY <1>1, <2>3 DEF finish, Announced, TypeOK
  <2> QED BY <2>1, <2>2, <2>4 DEF ExpiryAnnounced
<1>2. ASSUME \A x \in Orders : (op'[x].status = "expired") <=> (op[x].status = "expired"),
             \A x \in Orders : (outbox'[x].row = "none") <=> (outbox[x].row = "none")
      PROVE  ExpiryAnnounced'
  BY <1>2 DEF ExpiryAnnounced
<1>3. ASSUME NEW o \in Orders, OrderCalls(o) PROVE ExpiryAnnounced'
  <2>1. ASSUME NEW c \in Carts, ReserveAtomic(o, c) PROVE ExpiryAnnounced'
    BY <1>2, <2>1 DEF ReserveAtomic, CanReserve, TypeOK
  <2>2. CASE InsertTombstone(o)
    BY <1>2, <2>2 DEF InsertTombstone, Tombstone, TypeOK
  <2> QED BY <1>1, <1>3, <2>1, <2>2 DEF OrderCalls, CommitByOrderID, ReleaseByOrderID
<1>4. ASSUME NEW o \in Orders, DeadlinePasses(o) PROVE ExpiryAnnounced'
  BY <1>2, <1>4 DEF DeadlinePasses, TypeOK, Operations
<1>5. ASSUME NEW o \in Orders, Worker(o) PROVE ExpiryAnnounced'
  <2>1. CASE ExpireOne(o)
    BY <1>1, <2>1 DEF ExpireOne
  <2>2. CASE ExpireFails(o)
    BY <1>2, <2>2 DEF ExpireFails, TypeOK, Operations
  <2>3. CASE Dispatch(o)
    BY <1>2, <2>3 DEF Dispatch, DispatchDue, TypeOK
  <2>4. CASE DispatchFails(o)
    BY <1>2, <2>4 DEF DispatchFails, DispatchDue, TypeOK
  <2> QED BY <1>5, <2>1, <2>2, <2>3, <2>4 DEF Worker
<1>6. ASSUME NEW o \in Orders, AdminRepairs(o) PROVE ExpiryAnnounced'
  <2>1. CASE RepairReleaseCancelled(o)
    BY <1>1, <2>1 DEF RepairReleaseCancelled
  <2>2. CASE RepairAdoptLegacy(o)
    BY <1>2, <2>2 DEF RepairAdoptLegacy, TypeOK, Operations
  <2>3. CASE RepairReplay(o)
    <3>1. \A x \in Orders : op'[x].status = op[x].status
      BY <2>3 DEF RepairReplay, TypeOK, Operations
    <3>2. \A x \in Orders : (outbox'[x].row = "none") <=> (outbox[x].row = "none")
      BY <2>3 DEF RepairReplay, TypeOK
    <3> QED BY <1>2, <3>1, <3>2
  <2> QED BY <1>6, <2>1, <2>2, <2>3 DEF AdminRepairs
<1>7. CASE StockCalls
  BY <1>2, <1>7 DEF StockCalls, CreateItem, Restock, RecordStockCount
<1>8. CASE UNCHANGED vars
  BY <1>2, <1>8 DEF vars
<1> QED BY <1>3, <1>4, <1>5, <1>6, <1>7, <1>8 DEF Next, Step

(* Every expiry has its outbox row and no other operation has one.         *)
THEOREM ExpiryAlwaysAnnounced == Spec => []ExpiryAnnounced
<1>1. Init => ExpiryAnnounced
  BY DEF Init, ExpiryAnnounced, NoOperation, LegacyOperations, LegacyHold, LegacyEnd
<1> QED BY <1>1, NextExpiryAnnounced, TypeCorrect, PTL DEF Spec
----------------------------------------------------------------------------
(* What the ledger adds up to.                                             *)

Counted(rows) == IsFiniteSet(UnitsIn(rows)) /\ IsFiniteSet(UnitsOut(rows))

(* A set of n units more.                                                  *)
LEMMA UnitsAdd ==
    ASSUME NEW S, IsFiniteSet(S), NEW r, NEW n \in Int, \A u : <<r, u>> \notin S
    PROVE  /\ IsFiniteSet(S \cup ({r} \X (1 .. n))) /\ Cardinality(S) \in Nat
           /\ Cardinality(S \cup ({r} \X (1 .. n))) = IF n > 0 THEN Cardinality(S) + n ELSE Cardinality(S)
<1>0. Cardinality(S) \in Nat
  BY FS_CardinalityType
<1>1. CASE n > 0
  <2>1. IsFiniteSet(1 .. n) /\ Cardinality(1 .. n) = n
    BY <1>1, FS_Interval
  <2>2. IsFiniteSet({r}) /\ Cardinality({r}) = 1
    BY FS_Singleton
  <2>3. IsFiniteSet({r} \X (1 .. n)) /\ Cardinality({r} \X (1 .. n)) = 1 * n
    BY <2>1, <2>2, FS_Product
  <2>4. PICK T : T = {r} \X (1 .. n)
    OBVIOUS
  <2>5. S \cap T = {}
    BY <2>4
  <2>6. IsFiniteSet(S \cup T) /\ Cardinality(S \cup T) = Cardinality(S) + Cardinality(T) - Cardinality({})
    BY <2>3, <2>4, <2>5, FS_Union
  <2>7. Cardinality({}) = 0
    BY FS_EmptySet
  <2> QED BY <1>0, <1>1, <2>3, <2>4, <2>6, <2>7
<1>2. CASE ~(n > 0)
  <2>1. S \cup ({r} \X (1 .. n)) = S
    BY <1>2
  <2> QED BY <1>0, <1>2, <2>1
<1> QED BY <1>1, <1>2

(* One more row adds what it says.                                         *)
LEMMA RowAdds ==
    ASSUME NEW rows, Counted(rows), NEW m, NEW n \in Int, <<m, n>> \notin rows
    PROVE  /\ Counted(rows \cup {<<m, n>>}) /\ SumOf(rows) \in Int
           /\ SumOf(rows \cup {<<m, n>>}) = SumOf(rows) + n
<1>1. PICK r : r = <<m, n>>
  OBVIOUS
<1>2. /\ UnitsIn(rows \cup {r}) = UnitsIn(rows) \cup ({r} \X (1 .. n))
      /\ UnitsOut(rows \cup {r}) = UnitsOut(rows) \cup ({r} \X (1 .. -n))
  BY <1>1 DEF UnitsIn, UnitsOut
<1>3. \A u : <<r, u>> \notin UnitsIn(rows) /\ <<r, u>> \notin UnitsOut(rows)
  BY <1>1 DEF UnitsIn, UnitsOut
<1>4. PICK in, out : in = UnitsIn(rows) /\ out = UnitsOut(rows)
  OBVIOUS
<1>5. IsFiniteSet(in) /\ IsFiniteSet(out) /\ -n \in Int /\ \A u : <<r, u>> \notin in /\ <<r, u>> \notin out
  BY <1>3, <1>4 DEF Counted
<1>6. /\ IsFiniteSet(in \cup ({r} \X (1 .. n))) /\ Cardinality(in) \in Nat
      /\ Cardinality(in \cup ({r} \X (1 .. n))) = IF n > 0 THEN Cardinality(in) + n ELSE Cardinality(in)
  BY <1>5, UnitsAdd
<1>7. /\ IsFiniteSet(out \cup ({r} \X (1 .. -n))) /\ Cardinality(out) \in Nat
      /\ Cardinality(out \cup ({r} \X (1 .. -n))) = IF -n > 0 THEN Cardinality(out) - n ELSE Cardinality(out)
  <2>1. PICK k \in Int : k = -n
    BY <1>5
  <2>2. /\ IsFiniteSet(out \cup ({r} \X (1 .. k))) /\ Cardinality(out) \in Nat
        /\ Cardinality(out \cup ({r} \X (1 .. k))) = IF k > 0 THEN Cardinality(out) + k ELSE Cardinality(out)
    BY <1>5, UnitsAdd
  <2> QED BY <2>1, <2>2
<1>8. Counted(rows \cup {r})
  BY <1>2, <1>4, <1>6, <1>7 DEF Counted
<1>9. /\ SumOf(rows) = Cardinality(in) - Cardinality(out)
      /\ SumOf(rows \cup {r}) = Cardinality(in \cup ({r} \X (1 .. n))) - Cardinality(out \cup ({r} \X (1 .. -n)))
  BY <1>2, <1>4 DEF SumOf
<1> QED BY <1>1, <1>6, <1>7, <1>8, <1>9

LEMMA NoRows ==
    Counted({}) /\ SumOf({}) = 0
<1>1. UnitsIn({}) = {} /\ UnitsOut({}) = {}
  BY DEF UnitsIn, UnitsOut
<1> QED BY <1>1, FS_EmptySet DEF Counted, SumOf

(* Movements ms of an item explain an amount on hand, an amount held and   *)
(* an amount sold, own being those among them that are for no order.       *)
Explains(ms, own, onHand, held, sold) ==
    /\ Counted(AvailableRows(ms)) /\ Counted(ReservedRows(ms)) /\ Counted(StockRows(own))
    /\ onHand = SumOf(AvailableRows(ms)) /\ held = SumOf(ReservedRows(ms))
    /\ onHand + held + sold = SumOf(StockRows(own))

LEMMA OneMoreMovement ==
    ASSUME NEW ms, NEW own, own \subseteq ms, NEW onHand \in Int, NEW held \in Int, NEW sold \in Int,
           Explains(ms, own, onHand, held, sold),
           NEW m, m \notin ms, m.change \in Int, m.reservedChange \in Int
    PROVE  /\ Explains(ms \cup {m}, own \cup {m}, onHand + m.change, held + m.reservedChange, sold)
           /\ Explains(ms \cup {m}, own, onHand + m.change, held + m.reservedChange, sold - (m.change + m.reservedChange))
<1>1. PICK a \in Int, b \in Int : a = m.change /\ b = m.reservedChange
  OBVIOUS
<1>2. /\ AvailableRows(ms \cup {m}) = AvailableRows(ms) \cup {<<m, a>>} /\ <<m, a>> \notin AvailableRows(ms)
      /\ ReservedRows(ms \cup {m}) = ReservedRows(ms) \cup {<<m, b>>} /\ <<m, b>> \notin ReservedRows(ms)
      /\ StockRows(own \cup {m}) = StockRows(own) \cup {<<m, a + b>>} /\ <<m, a + b>> \notin StockRows(own)
  BY <1>1 DEF AvailableRows, ReservedRows, StockRows
<1>3. PICK av, rv, st : av = AvailableRows(ms) /\ rv = ReservedRows(ms) /\ st = StockRows(own)
  OBVIOUS
<1>4. /\ Counted(av) /\ Counted(rv) /\ Counted(st) /\ a + b \in Int
      /\ <<m, a>> \notin av /\ <<m, b>> \notin rv /\ <<m, a + b>> \notin st
  BY <1>2, <1>3 DEF Explains
<1>5. /\ Counted(av \cup {<<m, a>>}) /\ SumOf(av \cup {<<m, a>>}) = SumOf(av) + a
      /\ Counted(rv \cup {<<m, b>>}) /\ SumOf(rv \cup {<<m, b>>}) = SumOf(rv) + b
  BY <1>4, RowAdds
<1>6. Counted(st \cup {<<m, a + b>>}) /\ SumOf(st \cup {<<m, a + b>>}) = SumOf(st) + (a + b)
  BY <1>4, RowAdds
<1>7. /\ Counted(AvailableRows(ms \cup {m})) /\ SumOf(AvailableRows(ms \cup {m})) = onHand + a
      /\ Counted(ReservedRows(ms \cup {m})) /\ SumOf(ReservedRows(ms \cup {m})) = held + b
  BY <1>2, <1>3, <1>5 DEF Explains
<1>8. Counted(StockRows(own \cup {m})) /\ SumOf(StockRows(own \cup {m})) = SumOf(StockRows(own)) + (a + b)
  BY <1>2, <1>3, <1>6
<1> QED BY <1>1, <1>7, <1>8 DEF Explains

(* The ledger of one item: how it moved since the migration.               *)
ItemExplained(i) ==
    Explains(MovementsOf(i), OwnMovements(i), available[i] - opening[i].available,
             reserved[i] - opening[i].reserved, Cardinality(SoldUnits(i)) - opening[i].sold)

(* What the migration found; nothing was on hand of an item without a row. *)
OpeningTrue ==
    \A i \in Items : /\ opening[i].available \in Int /\ opening[i].reserved \in Int /\ opening[i].sold \in Int
                     /\ i \notin stocked => opening[i].available = 0

(* A movement names a stocked item; one of an order says how far the       *)
(* order's operation is, so that no transaction writes it again.           *)
KeysSpent ==
    /\ \A m \in movements : m.item \in stocked
    /\ \A m \in movements, o \in Orders : m.key = <<"hold", o>> => op[o].status # "none"
    /\ \A m \in movements, o \in Orders, target \in {"committed", "released", "expired"} :
          m.key = <<target, o>> => op[o].status = target

LedgerInv == StockInv /\ OpeningTrue /\ KeysSpent /\ \A i \in Items : ItemExplained(i)

LEMMA SoldIsNat ==
    ASSUME NEW i \in Items PROVE IsFiniteSet(SoldUnits(i)) /\ Cardinality(SoldUnits(i)) \in Nat
<1>1. IsFiniteSet(1..MaxLine)
  BY FS_Interval, MaxLineAssumption
<1>2. IsFiniteSet(Orders \X (1..MaxLine))
  BY <1>1, OrdersAssumption, FS_Product
<1> QED BY <1>2, FS_Subset, FS_CardinalityType DEF SoldUnits

LEMMA LedgerFollows == LedgerInv => StockExplained
<1> SUFFICES ASSUME LedgerInv, NEW i \in Items
             PROVE  /\ available[i] = opening[i].available + SumOf(AvailableRows(MovementsOf(i)))
                    /\ reserved[i] = opening[i].reserved + SumOf(ReservedRows(MovementsOf(i)))
                    /\ available[i] + reserved[i] + Cardinality(SoldUnits(i))
                         = opening[i].available + opening[i].reserved + opening[i].sold + SumOf(StockRows(OwnMovements(i)))
  BY DEF StockExplained, LedgerMatchesBalance, UnitsConserved
<1>1. PICK a, b, c : a = available[i] /\ b = reserved[i] /\ c = Cardinality(SoldUnits(i))
  OBVIOUS
<1>2. PICK x, y, z : x = opening[i].available /\ y = opening[i].reserved /\ z = opening[i].sold
  OBVIOUS
<1>3. PICK u, v, w : /\ u = SumOf(AvailableRows(MovementsOf(i))) /\ v = SumOf(ReservedRows(MovementsOf(i)))
                     /\ w = SumOf(StockRows(OwnMovements(i)))
  OBVIOUS
<1>4. a \in Int /\ b \in Int /\ c \in Int /\ x \in Int /\ y \in Int /\ z \in Int
  BY <1>1, <1>2, SoldIsNat DEF LedgerInv, StockInv, TypeOK, OpeningTrue
<1>5. a - x = u /\ b - y = v /\ (a - x) + (b - y) + (c - z) = w
  BY <1>1, <1>2, <1>3 DEF LedgerInv, ItemExplained, Explains
<1>6. a = x + u /\ b = y + v /\ a + b + c = x + y + z + w
  BY ONLY <1>4, <1>5
<1> QED BY <1>1, <1>2, <1>3, <1>6

(* A step that writes no movement of an item and moves none of its balances *)
(* leaves its ledger explained.                                            *)
LEMMA ItemRests ==
    ASSUME NEW i \in Items, ItemExplained(i), MovementsOf(i)' = MovementsOf(i),
           available'[i] = available[i], reserved'[i] = reserved[i], SoldUnits(i)' = SoldUnits(i), opening' = opening
    PROVE  ItemExplained(i)'
<1>1. OwnMovements(i)' = OwnMovements(i)
  BY DEF OwnMovements
<1> QED BY <1>1 DEF ItemExplained

(* A step that writes one movement of an item, for no order or for one.    *)
LEMMA ItemMoves ==
    ASSUME TypeOK, OpeningTrue, opening' = opening,
           NEW i \in Items, ItemExplained(i), NEW m \in Movements, m \notin movements, m.item = i,
           MovementsOf(i)' = MovementsOf(i) \cup {m},
           available'[i] = available[i] + m.change, reserved'[i] = reserved[i] + m.reservedChange,
           Cardinality(SoldUnits(i)') = IF m.key[1] \in OwnKinds THEN Cardinality(SoldUnits(i))
                                        ELSE Cardinality(SoldUnits(i)) - (m.change + m.reservedChange)
    PROVE  ItemExplained(i)'
<1>1. PICK ms, own, sold, a, b :
        /\ ms = MovementsOf(i) /\ own = OwnMovements(i) /\ sold = Cardinality(SoldUnits(i)) - opening[i].sold
        /\ a = available[i] - opening[i].available /\ b = reserved[i] - opening[i].reserved
  OBVIOUS
<1>0. /\ available[i] \in Int /\ reserved[i] \in Int /\ Cardinality(SoldUnits(i)) \in Int
      /\ opening[i].available \in Int /\ opening[i].reserved \in Int /\ opening[i].sold \in Int
  BY SoldIsNat DEF TypeOK, OpeningTrue
<1>2. /\ own \subseteq ms /\ m \notin ms /\ sold \in Int /\ a \in Int /\ b \in Int
      /\ m.change \in Int /\ m.reservedChange \in Int
  BY <1>0, <1>1 DEF OwnMovements, MovementsOf, Movements
<1>3. Explains(ms, own, a, b, sold)
  BY <1>1 DEF ItemExplained
<1>4. /\ Explains(ms \cup {m}, own \cup {m}, a + m.change, b + m.reservedChange, sold)
      /\ Explains(ms \cup {m}, own, a + m.change, b + m.reservedChange, sold - (m.change + m.reservedChange))
  BY <1>2, <1>3, OneMoreMovement
<1>5. OwnMovements(i)' = IF m.key[1] \in OwnKinds THEN own \cup {m} ELSE own
  BY <1>1 DEF OwnMovements
<1>8. /\ MovementsOf(i)' = ms \cup {m}
      /\ (available[i] - opening[i].available)' = a + m.change /\ (reserved[i] - opening[i].reserved)' = b + m.reservedChange
  BY <1>0, <1>1, <1>2
<1>6. CASE m.key[1] \in OwnKinds
  <2>1. OwnMovements(i)' = own \cup {m} /\ (Cardinality(SoldUnits(i)) - opening[i].sold)' = sold
    BY <1>1, <1>5, <1>6
  <2> QED BY <1>4, <1>8, <2>1 DEF ItemExplained
<1>7. CASE m.key[1] \notin OwnKinds
  <2>1. /\ OwnMovements(i)' = own
        /\ (Cardinality(SoldUnits(i)) - opening[i].sold)' = sold - (m.change + m.reservedChange)
    BY <1>0, <1>1, <1>2, <1>5, <1>7
  <2> QED BY <1>4, <1>8, <2>1 DEF ItemExplained
<1> QED BY <1>6, <1>7

(* Steps that write nothing into the ledger.                               *)
LEMMA LedgerRests ==
    ASSUME LedgerInv, StockInv', UNCHANGED <<stocked, available, reserved, movements, opening>>,
           \A o \in Orders : \/ op'[o].status = op[o].status /\ op'[o].lines = op[o].lines
                             \/ op[o].status = "none" /\ op'[o].status = "released"
    PROVE  LedgerInv'
<1>1. ASSUME NEW i \in Items PROVE ItemExplained(i)'
  <2>1. SoldUnits(i)' = SoldUnits(i)
    BY DEF SoldUnits
  <2>2. MovementsOf(i)' = MovementsOf(i)
    BY DEF MovementsOf
  <2> QED BY <2>1, <2>2, ItemRests DEF LedgerInv
<1>2. KeysSpent' /\ OpeningTrue'
  BY DEF LedgerInv, KeysSpent, OpeningTrue
<1> QED BY <1>1, <1>2 DEF LedgerInv

(* One movement m of item i comes, for no order.                           *)
LEMMA OwnMovementComes ==
    ASSUME LedgerInv, StockInv', opening' = opening, NEW i \in Items, NEW m \in Movements, m \notin movements, m.item = i,
           i \in stocked', m.key[1] \in OwnKinds, movements' = movements \cup {m}, stocked \subseteq stocked',
           available' = [available EXCEPT ![i] = available[i] + m.change], m.reservedChange = 0,
           UNCHANGED <<reserved, op>>
    PROVE  LedgerInv'
<1>0. TypeOK
  BY DEF LedgerInv, StockInv
<1>1. ASSUME NEW j \in Items PROVE ItemExplained(j)'
  <2>1. SoldUnits(j)' = SoldUnits(j) /\ ItemExplained(j) /\ reserved'[j] = reserved[j] /\ reserved[j] \in Int
    BY <1>0 DEF SoldUnits, LedgerInv, TypeOK
  <2>2. CASE j = i
    <3>1. MovementsOf(i)' = MovementsOf(i) \cup {m}
      BY DEF MovementsOf
    <3>2. available'[i] = available[i] + m.change /\ reserved'[i] = reserved[i] + m.reservedChange
      BY <1>0, <2>1, <2>2 DEF TypeOK
    <3> QED BY <1>0, <2>1, <2>2, <3>1, <3>2, ItemMoves DEF LedgerInv
  <2>3. CASE j # i
    <3>1. MovementsOf(j)' = MovementsOf(j) /\ available'[j] = available[j]
      BY <1>0, <2>3 DEF MovementsOf, TypeOK
    <3> QED BY <2>1, <3>1, ItemRests
  <2> QED BY <2>2, <2>3
<1>2. \A o : m.key # <<"hold", o>> /\ m.key # <<"committed", o>> /\ m.key # <<"released", o>> /\ m.key # <<"expired", o>>
  BY DEF OwnKinds, RestockKinds
<1>3. KeysSpent' /\ OpeningTrue'
  BY <1>2 DEF LedgerInv, KeysSpent, OpeningTrue
<1> QED BY <1>1, <1>3 DEF LedgerInv

(* Where the lines of order o go.                                          *)
LEMMA SoldGrows ==
    ASSUME TypeOK, NEW o \in Orders, NEW i \in Items, op[o].status # "committed", op'[o].lines = op[o].lines,
           \A x \in Orders \ {o} : op'[x] = op[x]
    PROVE  Cardinality(SoldUnits(i)') = IF op'[o].status = "committed" THEN Cardinality(SoldUnits(i)) + op[o].lines[i]
                                        ELSE Cardinality(SoldUnits(i))
<1>1. CASE op'[o].status = "committed"
  <2>0. PICK n \in 0..MaxLine : n = op[o].lines[i]
    BY DEF TypeOK, Operations
  <2>1. PICK S, T : S = SoldUnits(i) /\ n = op[o].lines[i] /\ T = LineUnits(o, n)
    BY <2>0
  <2>2. SoldUnits(i)' = S \cup T /\ S \cap T = {}
    BY <1>1, <2>1 DEF SoldUnits, LineUnits
  <2>3. IsFiniteSet(T) /\ Cardinality(T) = n /\ IsFiniteSet(S) /\ Cardinality(S) \in Nat
    BY <2>1, LineUnitsCardinality, SoldIsNat
  <2>4. Cardinality(S \cup T) = Cardinality(S) + Cardinality(T) - Cardinality({})
    BY <2>2, <2>3, FS_Union
  <2>5. Cardinality({}) = 0
    BY FS_EmptySet
  <2> QED BY <1>1, <2>1, <2>2, <2>3, <2>4, <2>5
<1>2. CASE op'[o].status # "committed"
  <2>1. SoldUnits(i)' = SoldUnits(i)
    BY <1>2 DEF SoldUnits
  <2> QED BY <1>2, <2>1
<1> QED BY <1>1, <1>2

(* The lines of order o are written, once, with what they move.            *)
LEMMA LinesCome ==
    ASSUME LedgerInv, StockInv', opening' = opening, NEW o \in Orders, NEW kind \in {"hold", "committed", "released", "expired"},
           NEW c \in [Items -> 0..MaxLine], NEW sign \in {-1, 0, 1}, NEW reservedSign \in {-1, 1},
           movements' = movements \cup LineMovements(kind, o, c, sign, reservedSign), stocked' = stocked,
           \A i \in Items : c[i] > 0 => i \in stocked,
           \A m \in movements : m.key # <<kind, o>>,
           \A i \in Items : available'[i] = available[i] + sign * c[i] /\ reserved'[i] = reserved[i] + reservedSign * c[i],
           \A i \in Items : Cardinality(SoldUnits(i)') = Cardinality(SoldUnits(i)) - (sign * c[i] + reservedSign * c[i]),
           \A i \in Items : c[i] = 0 => SoldUnits(i)' = SoldUnits(i),
           \A x \in Orders \ {o} : op'[x] = op[x],
           IF kind = "hold" THEN op[o].status = "none" /\ op'[o].status # "none"
                            ELSE op[o].status = "held" /\ op'[o].status = kind
    PROVE  LedgerInv'
<1>0. TypeOK
  BY DEF LedgerInv, StockInv
<1>1. ASSUME NEW i \in Items PROVE ItemExplained(i)'
  <2>0. c[i] \in 0..MaxLine /\ c[i] \in Int /\ available[i] \in Int /\ reserved[i] \in Int /\ ItemExplained(i)
    BY <1>0, MaxLineAssumption DEF TypeOK, LedgerInv
  <2>1. CASE c[i] > 0
    <3>1. PICK m : m = [item |-> i, key |-> <<kind, o>>, change |-> sign * c[i], reservedChange |-> reservedSign * c[i]]
      OBVIOUS
    <3>2. m \in LineMovements(kind, o, c, sign, reservedSign)
      BY <2>1, <3>1 DEF LineMovements
    <3>3. m \in Movements
      BY <3>2, LineMovementsType
    <3>4. m \notin movements /\ m.item = i /\ m.change = sign * c[i] /\ m.reservedChange = reservedSign * c[i] /\ m.key[1] = kind
      BY <3>1
    <3>5. MovementsOf(i)' = MovementsOf(i) \cup {m}
      <4>1. \A n \in LineMovements(kind, o, c, sign, reservedSign) : n.item = i => n = m
        BY <3>1 DEF LineMovements
      <4> QED BY <3>2, <3>4, <4>1 DEF MovementsOf
    <3>6. kind \notin OwnKinds
      BY DEF OwnKinds, RestockKinds
    <3> QED BY <1>0, <2>0, <3>3, <3>4, <3>5, <3>6, ItemMoves DEF LedgerInv
  <2>2. CASE ~(c[i] > 0)
    <3>1. c[i] = 0
      BY <2>0, <2>2, MaxLineAssumption
    <3>2. MovementsOf(i)' = MovementsOf(i)
      BY <2>2 DEF MovementsOf, LineMovements
    <3>3. available'[i] = available[i] /\ reserved'[i] = reserved[i]
      <4>1. sign * c[i] = 0
        BY <3>1
      <4>2. reservedSign * c[i] = 0
        BY <3>1
      <4>3. available'[i] = available[i] + sign * c[i]
        OBVIOUS
      <4>4. reserved'[i] = reserved[i] + reservedSign * c[i]
        OBVIOUS
      <4>5. PICK x, y : x = sign * c[i] /\ y = reservedSign * c[i] /\ x = 0 /\ y = 0
        BY <4>1, <4>2
      <4>6. available'[i] = available[i] + 0 /\ reserved'[i] = reserved[i] + 0
        BY <4>3, <4>4, <4>5
      <4>7. available[i] + 0 = available[i] /\ reserved[i] + 0 = reserved[i]
        <5>1. available[i] \in Int /\ reserved[i] \in Int
          BY <2>0
        <5> QED BY ONLY <5>1
      <4> QED BY <4>6, <4>7
    <3> QED BY <2>0, <3>1, <3>2, <3>3, ItemRests
  <2> QED BY <2>1, <2>2
<1>2. \A m \in LineMovements(kind, o, c, sign, reservedSign) : m.key = <<kind, o>> /\ m.item \in stocked
  BY DEF LineMovements
<1>3. KeysSpent' /\ OpeningTrue'
  BY <1>2 DEF LedgerInv, KeysSpent, OpeningTrue
<1> QED BY <1>1, <1>3 DEF LedgerInv

LEMMA FinishLedger ==
    ASSUME LedgerInv, StockInv', opening' = opening, NEW o \in Orders, NEW target \in {"committed", "released", "expired"}, finish(o, target)
    PROVE  LedgerInv'
<1>0. TypeOK /\ op[o].status = "held" /\ op'[o].status = target /\ op'[o].lines = op[o].lines
  BY DEF LedgerInv, StockInv, finish, Finishable, TypeOK, Operations
<1>1. PICK c \in [Items -> 0..MaxLine] : c = op[o].lines
  BY <1>0 DEF TypeOK, Operations
<1>2. \A x \in Orders \ {o} : op'[x] = op[x]
  BY <1>0 DEF finish, TypeOK
<1>3. PICK back \in {0, 1} : back = UnitsBack(target) /\ (back = 0 <=> target = "committed")
  BY DEF UnitsBack
<1>4. /\ movements' = movements \cup LineMovements(target, o, c, back, -1) /\ stocked' = stocked
      /\ available' = [i \in Items |-> available[i] + back * c[i]]
      /\ reserved' = [i \in Items |-> reserved[i] - c[i]]
  BY <1>1, <1>3 DEF finish, FinishMovements
<1>5. \A i \in Items : c[i] > 0 => i \in stocked
  BY <1>0, <1>1 DEF LedgerInv, StockInv, HeldAreStocked
<1>6. \A m \in movements : m.key # <<target, o>>
  BY <1>0 DEF LedgerInv, KeysSpent
<1>7. \A i \in Items : c[i] \in Int /\ reserved[i] \in Int /\ available[i] \in Int
  BY <1>0, MaxLineAssumption DEF TypeOK
<1>8. \A i \in Items : available'[i] = available[i] + back * c[i] /\ reserved'[i] = reserved[i] + (-1) * c[i]
  BY <1>4, <1>7
<1>9. ASSUME NEW i \in Items
      PROVE  /\ Cardinality(SoldUnits(i)') = Cardinality(SoldUnits(i)) - (back * c[i] + (-1) * c[i])
             /\ c[i] = 0 => SoldUnits(i)' = SoldUnits(i)
  <2>1. Cardinality(SoldUnits(i)') = IF op'[o].status = "committed" THEN Cardinality(SoldUnits(i)) + op[o].lines[i]
                                     ELSE Cardinality(SoldUnits(i))
    BY <1>0, <1>2, SoldGrows
  <2>2. Cardinality(SoldUnits(i)) \in Nat /\ c[i] \in Int
    BY <1>7, SoldIsNat
  <2>3. Cardinality(SoldUnits(i)') = Cardinality(SoldUnits(i)) - (back * c[i] + (-1) * c[i])
    <3>1. CASE back = 0
      BY <1>0, <1>1, <1>3, <2>1, <2>2, <3>1
    <3>2. CASE back = 1
      BY <1>0, <1>1, <1>3, <2>1, <2>2, <3>2
    <3> QED BY <3>1, <3>2
  <2>4. c[i] = 0 => SoldUnits(i)' = SoldUnits(i)
    BY <1>0, <1>1, <1>2 DEF SoldUnits
  <2> QED BY <2>3, <2>4
<1> QED BY <1>0, <1>2, <1>4, <1>5, <1>6, <1>8, <1>9, LinesCome

LEMMA ReserveLedger ==
    ASSUME LedgerInv, StockInv', opening' = opening, NEW o \in Orders, NEW c \in Carts, ReserveAtomic(o, c)
    PROVE  LedgerInv'
<1>0. TypeOK /\ c \in [Items -> 0..MaxLine]
  BY CartsAssumption DEF LedgerInv, StockInv
<1>1. op[o].status = "none" /\ op'[o].status = "held" /\ \A x \in Orders \ {o} : op'[x] = op[x]
  BY <1>0 DEF ReserveAtomic, CanReserve, TypeOK
<1>2. \A i \in Items : c[i] > 0 => i \in stocked
  BY DEF ReserveAtomic, CanReserve
<1>3. \A m \in movements : m.key # <<"hold", o>>
  BY <1>1 DEF LedgerInv, KeysSpent
<1>4. \A i \in Items : c[i] \in Int /\ reserved[i] \in Int /\ available[i] \in Int
  BY <1>0, MaxLineAssumption DEF TypeOK
<1>5. \A i \in Items : available'[i] = available[i] + (-1) * c[i] /\ reserved'[i] = reserved[i] + 1 * c[i]
  BY <1>4 DEF ReserveAtomic
<1>6. \A i \in Items : SoldUnits(i)' = SoldUnits(i)
  BY <1>1 DEF SoldUnits
<1>7. \A i \in Items : Cardinality(SoldUnits(i)') = Cardinality(SoldUnits(i)) - ((-1) * c[i] + 1 * c[i])
  BY <1>4, <1>6, SoldIsNat
<1>8. movements' = movements \cup LineMovements("hold", o, c, -1, 1) /\ stocked' = stocked
  BY DEF ReserveAtomic
<1> QED BY <1>0, <1>1, <1>2, <1>3, <1>5, <1>6, <1>7, <1>8, LinesCome

(* Nothing moved yet, and nothing is in the ledger.                        *)
LEMMA InitLedger == Init => LedgerInv
<1> SUFFICES ASSUME Init PROVE LedgerInv
  OBVIOUS
<1>0. StockInv /\ TypeOK
  BY InitStockInv DEF StockInv
<1>1. KeysSpent
  BY DEF Init, KeysSpent
<1>3. ASSUME NEW i \in Items
      PROVE  opening[i].available = available[i] /\ opening[i].reserved = reserved[i]
               /\ opening[i].sold = Cardinality(SoldUnits(i))
  BY DEF Init
<1>4. OpeningTrue
  <2> SUFFICES ASSUME NEW i \in Items
               PROVE  /\ opening[i].available \in Int /\ opening[i].reserved \in Int /\ opening[i].sold \in Int
                      /\ i \notin stocked => opening[i].available = 0
    BY DEF OpeningTrue
  <2>1. available[i] \in Int /\ reserved[i] \in Int /\ Cardinality(SoldUnits(i)) \in Int
    BY <1>0, SoldIsNat DEF TypeOK
  <2>2. i \notin stocked => available[i] = 0
    BY DEF Init
  <2> QED BY <1>3, <2>1, <2>2
<1>2. ASSUME NEW i \in Items PROVE ItemExplained(i)
  <2>1. AvailableRows({}) = {} /\ ReservedRows({}) = {} /\ StockRows({}) = {}
    BY DEF AvailableRows, ReservedRows, StockRows
  <2>2. Explains({}, {}, 0, 0, 0)
    BY <2>1, NoRows DEF Explains
  <2>3. MovementsOf(i) = {} /\ OwnMovements(i) = {}
    BY DEF Init, MovementsOf, OwnMovements
  <2>4. available[i] \in Int /\ reserved[i] \in Int /\ Cardinality(SoldUnits(i)) \in Int
    BY <1>0, SoldIsNat DEF TypeOK
  <2>5. /\ available[i] - opening[i].available = 0 /\ reserved[i] - opening[i].reserved = 0
        /\ Cardinality(SoldUnits(i)) - opening[i].sold = 0
    BY <1>3, <2>4
  <2> QED BY <2>2, <2>3, <2>5 DEF ItemExplained
<1> QED BY <1>0, <1>1, <1>2, <1>4 DEF LedgerInv

(* Every transaction writes the ledger rows of what it moves, once.        *)
LEMMA NextLedger == LedgerInv /\ [Next]_vars => LedgerInv'
<1> SUFFICES ASSUME LedgerInv, [Next]_vars PROVE LedgerInv'
  OBVIOUS
<1>0. StockInv /\ StockInv' /\ TypeOK
  BY NextStockInv DEF LedgerInv, StockInv
<1>10. opening' = opening
  BY DEF Next, vars
<1>1. ASSUME UNCHANGED <<stocked, available, reserved, movements>>, TypeOK,
             \A o \in Orders : \/ op'[o].status = op[o].status /\ op'[o].lines = op[o].lines
                               \/ op[o].status = "none" /\ op'[o].status = "released"
      PROVE  LedgerInv'
  BY <1>0, <1>1, <1>10, LedgerRests
<1>2. ASSUME NEW o \in Orders, OrderCalls(o) PROVE LedgerInv'
  <2>1. CASE InsertTombstone(o)
    <3>1. \A x \in Orders : \/ op'[x].status = op[x].status /\ op'[x].lines = op[x].lines
                            \/ op[x].status = "none" /\ op'[x].status = "released"
      BY <1>0, <2>1 DEF InsertTombstone, Tombstone, TypeOK
    <3> QED BY <1>0, <1>1, <2>1, <3>1 DEF InsertTombstone
  <2> QED BY <1>0, <1>10, <1>2, <2>1, FinishLedger, ReserveLedger DEF OrderCalls, CommitByOrderID, ReleaseByOrderID
<1>3. ASSUME NEW o \in Orders, DeadlinePasses(o) PROVE LedgerInv'
  BY <1>0, <1>1, <1>3 DEF DeadlinePasses, TypeOK, Operations
<1>4. ASSUME NEW o \in Orders, Worker(o) PROVE LedgerInv'
  <2>1. CASE ExpireOne(o)
    BY <1>0, <1>10, <2>1, FinishLedger DEF ExpireOne
  <2>2. CASE ExpireFails(o)
    BY <1>0, <1>1, <2>2 DEF ExpireFails, TypeOK, Operations
  <2>3. CASE Dispatch(o) \/ DispatchFails(o)
    BY <1>0, <1>1, <2>3 DEF Dispatch, DispatchFails
  <2> QED BY <1>4, <2>1, <2>2, <2>3 DEF Worker
<1>5. ASSUME NEW o \in Orders, AdminRepairs(o) PROVE LedgerInv'
  <2>1. CASE RepairReleaseCancelled(o)
    BY <1>0, <1>10, <2>1, FinishLedger DEF RepairReleaseCancelled
  <2>2. CASE RepairAdoptLegacy(o)
    BY <1>0, <1>1, <2>2 DEF RepairAdoptLegacy, TypeOK, Operations
  <2>3. CASE RepairReplay(o)
    BY <1>0, <1>1, <2>3 DEF RepairReplay, TypeOK, Operations
  <2> QED BY <1>5, <2>1, <2>2, <2>3 DEF AdminRepairs
<1>6. ASSUME NEW i \in Items, NEW q \in 0..MaxStock, CreateItem(i, q) PROVE LedgerInv'
  <2>1. PICK m : m = [item |-> i, key |-> <<"initial", i>>, change |-> q, reservedChange |-> 0]
    OBVIOUS
  <2>2. /\ m \in Movements /\ m.item = i /\ m.key[1] \in OwnKinds /\ m.change = q /\ m.reservedChange = 0
        /\ available[i] \in Nat
    BY <1>0, <2>1, MaxStockAssumption DEF Movements, Keys, OwnKinds, TypeOK
  <2>3. m \notin movements /\ i \notin stocked
    BY <1>6, <2>2 DEF CreateItem, LedgerInv, KeysSpent
  <2>4. MovementsOf(i) = {} /\ OwnMovements(i) = {}
    BY <2>3 DEF LedgerInv, KeysSpent, MovementsOf, OwnMovements
  <2>5. available[i] = 0
    <3>1. AvailableRows({}) = {}
      BY DEF AvailableRows
    <3>2. available[i] = opening[i].available + SumOf(AvailableRows(MovementsOf(i)))
      BY LedgerFollows DEF StockExplained, LedgerMatchesBalance
    <3>3. opening[i].available = 0
      BY <2>3 DEF LedgerInv, OpeningTrue
    <3> QED BY <2>4, <3>1, <3>2, <3>3, NoRows
  <2>6. available' = [available EXCEPT ![i] = available[i] + m.change]
    <3>1. available[i] + m.change = q
      BY <2>2, <2>5, MaxStockAssumption
    <3> QED BY <1>6, <3>1 DEF CreateItem
  <2>7. movements' = movements \cup {m} /\ stocked \subseteq stocked' /\ i \in stocked' /\ UNCHANGED <<reserved, op>>
    BY <1>6, <2>1 DEF CreateItem
  <2> QED BY <1>0, <1>10, <2>2, <2>3, <2>6, <2>7, OwnMovementComes
<1>7. ASSUME NEW kind \in RestockKinds, NEW r \in Receipts, NEW i \in Items, NEW q \in 1..MaxStock,
             Restock(kind, r, i, q)
      PROVE  LedgerInv'
  <2>1. PICK m : m = [item |-> i, key |-> <<kind, r>>, change |-> q, reservedChange |-> 0]
    OBVIOUS
  <2>2. m \in Movements /\ m.item = i /\ m.key[1] \in OwnKinds /\ m.change = q /\ m.reservedChange = 0
    BY <2>1, MaxStockAssumption DEF Movements, Keys, OwnKinds
  <2>3. m \notin movements /\ i \in stocked
    BY <1>7, <2>1 DEF Restock, AlreadyIn
  <2>4. available' = [available EXCEPT ![i] = available[i] + m.change]
    BY <1>7, <2>2 DEF Restock
  <2>5. movements' = movements \cup {m} /\ stocked' = stocked /\ UNCHANGED <<reserved, op>>
    BY <1>7, <2>1 DEF Restock
  <2> QED BY <1>0, <1>10, <2>2, <2>3, <2>4, <2>5, OwnMovementComes
<1>8. ASSUME NEW r \in Receipts, NEW i \in Items, NEW counted \in 0..MaxStock, RecordStockCount(r, i, counted)
      PROVE  LedgerInv'
  <2>0. counted \in Int /\ reserved[i] \in Int /\ available[i] \in Int
    BY <1>0, MaxStockAssumption DEF TypeOK
  <2>1. PICK m : m = [item |-> i, key |-> <<"count", r>>,
                      change |-> counted - reserved[i] - available[i], reservedChange |-> 0]
    OBVIOUS
  <2>2. /\ m \in Movements /\ m.item = i /\ m.key[1] \in OwnKinds /\ m.reservedChange = 0
        /\ m.change = counted - reserved[i] - available[i]
    BY <2>0, <2>1 DEF Movements, Keys, OwnKinds
  <2>3. m \notin movements /\ i \in stocked
    BY <1>8, <2>1 DEF RecordStockCount, Recorded
  <2>4. available[i] + m.change = counted - reserved[i]
    BY <2>0, <2>2
  <2>5. available' = [available EXCEPT ![i] = available[i] + m.change]
    BY <1>8, <2>4 DEF RecordStockCount
  <2>6. movements' = movements \cup {m} /\ stocked' = stocked /\ UNCHANGED <<reserved, op>>
    BY <1>8, <2>1 DEF RecordStockCount
  <2> QED BY <1>0, <1>10, <2>2, <2>3, <2>5, <2>6, OwnMovementComes
<1>9. CASE UNCHANGED vars
  BY <1>0, <1>1, <1>9 DEF vars
<1> QED BY <1>2, <1>3, <1>4, <1>5, <1>6, <1>7, <1>8, <1>9 DEF Next, Step, StockCalls

(* The ledger explains how both balances of every item moved since the     *)
(* migration, and what was there or came in is on hand or sold: reserve,   *)
(* finish, CreateItem, Restock and RecordStockCount each write the         *)
(* stock_movements rows of what they move, once.                           *)
THEOREM StockAlwaysExplained == Spec => []StockExplained
BY InitLedger, NextLedger, LedgerFollows, PTL DEF Spec

=============================================================================
