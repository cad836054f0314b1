--------------------------- MODULE CheckoutProofs ---------------------------
(***************************************************************************)
(* Proofs about Checkout: the safety properties of the saga, for any       *)
(* number of orders, keys, requests, workers and faults.  What makes them  *)
(* hold together is the key an order was created under (origin): a process *)
(* and an operation that name an order agree with it unless the key has    *)
(* expired meanwhile, and an order of a living key is ready only when the  *)
(* key's operation completed with it.                                      *)
(***************************************************************************)
EXTENDS Checkout, FiniteSetTheorems, TLAPS

(* Steps at which a process has a key in hand, and an order.               *)
KeySteps == {"settle", "plan", "reserve", "abandon", "dropcart", "fail", "ready"}
OrderSteps == {"reserve", "abandon", "dropcart", "ready", "activate", "dropheld"}

Created(o) == order[o].status # "none"

(* What a process holds: an order that exists and was created under its    *)
(* key, and, where it goes on to make it ready, a reservation.             *)
ProcInv(p) ==
    /\ proc[p].pc \in KeySteps => proc[p].key # NoKey
    /\ proc[p].pc \in OrderSteps => proc[p].order # NoOrder
    /\ proc[p].order # NoOrder => Created(proc[p].order)
    /\ proc[p].order # NoOrder /\ proc[p].key # NoKey => origin[proc[p].order] \in {proc[p].key, NoKey}
    /\ proc[p].pc = "ready" => receipt[proc[p].order] # "none"

(* What an operation says of the order it is linked to.                    *)
OpInv(k) ==
    /\ op[k].order # NoOrder => Created(op[k].order)
    /\ op[k].status \in {"preparing", "failed"} /\ op[k].order # NoOrder => origin[op[k].order] = k
    /\ op[k].status = "preparing" /\ op[k].order # NoOrder => order[op[k].order].checkout # "ready"
    /\ op[k].status = "completed" => op[k].order # NoOrder /\ order[op[k].order].checkout = "ready"

(* An order against its cart task, its key's operation, and its stock.     *)
OrderInv(o) ==
    /\ order[o].status = "none" <=> order[o].checkout = "none"
    /\ order[o].checkout = "preparing" => order[o].status = "pending_payment"
    /\ cart[o] # "none" => Created(o)
    /\ order[o].checkout = "ready" /\ origin[o] # NoKey
          => op[origin[o]].status = "completed" /\ op[origin[o]].order = o
    /\ order[o].checkout = "ready" => receipt[o] # "none"
    /\ release[o] # "none" => order[o].status = "cancelled"
    /\ receipt[o] = "released" => release[o] # "none"
    /\ release[o] = "done" => receipt[o] \in {"released", "expired"}
    /\ order[o].status = "paid" => receipt[o] = "committed"

(* One checkout at a time, and no cart is open when it claims its own.     *)
CartInv ==
    /\ \A k, l \in Keys : op[k].status = "preparing" /\ op[l].status = "preparing" => k = l
    /\ \A k \in Keys : op[k].status = "preparing" /\ op[k].order = NoOrder => OpenCarts = {}
    /\ \A o1, o2 \in OpenCarts : o1 = o2

CheckoutInv ==
    /\ TypeOK
    /\ \A p \in Procs : ProcInv(p)
    /\ \A k \in Keys : OpInv(k)
    /\ \A o \in Orders : OrderInv(o)
    /\ CartInv

----------------------------------------------------------------------------
(* How a process moves.                                                    *)

PCs == {"idle"} \cup RequestSteps \cup WorkerSteps
ProcRecords == [pc : PCs, key : Keys \cup {NoKey}, order : Orders \cup {NoOrder}, sticky : BOOLEAN]

OpRecords == [status : {"none", "preparing", "completed", "failed"}, order : Orders \cup {NoOrder}, sticky : BOOLEAN]

Moves(p) == proc'[p] \in ProcRecords /\ proc' = [proc EXCEPT ![p] = proc'[p]]

Continues(p, pc) == /\ Moves(p) /\ proc'[p].pc = pc
                    /\ proc'[p].key = proc[p].key /\ proc'[p].order = proc[p].order

LEMMA ProcTyped == TypeOK => proc \in [Procs -> ProcRecords]
BY DEF TypeOK, ProcRecords, PCs

LEMMA OpTyped == TypeOK => op \in [Keys -> OpRecords]
BY DEF TypeOK, OpRecords

LEMMA StepNames == /\ PCs = {"idle", "settle", "plan", "reserve", "abandon", "dropcart", "fail", "ready",
                             "activate", "dropheld"}
                   /\ KeySteps \subseteq PCs /\ OrderSteps \subseteq PCs
BY DEF PCs, RequestSteps, WorkerSteps, KeySteps, OrderSteps

LEMMA GotoContinues ==
    ASSUME TypeOK, NEW p \in Procs, NEW pc \in PCs, NEW s \in BOOLEAN,
           \/ Goto(p, pc)
           \/ proc' = [proc EXCEPT ![p].pc = pc, ![p].sticky = s]
    PROVE  Continues(p, pc)
<1>1. proc \in [Procs -> ProcRecords] /\ proc[p] \in ProcRecords
  BY ProcTyped
<1>2. /\ [proc[p] EXCEPT !.pc = pc] \in ProcRecords
      /\ [proc[p] EXCEPT !.pc = pc, !.sticky = s] \in ProcRecords
  BY <1>1 DEF ProcRecords
<1>3. CASE Goto(p, pc)
  <2>1. proc' = [proc EXCEPT ![p] = [proc[p] EXCEPT !.pc = pc]]
    BY <1>3 DEF Goto
  <2>2. proc'[p] = [proc[p] EXCEPT !.pc = pc]
    BY <1>1, <2>1
  <2> QED BY <1>1, <1>2, <2>1, <2>2 DEF Continues, Moves, ProcRecords
<1>4. CASE proc' = [proc EXCEPT ![p].pc = pc, ![p].sticky = s]
  <2>1. proc' = [proc EXCEPT ![p] = [proc[p] EXCEPT !.pc = pc, !.sticky = s]]
    BY <1>1, <1>4
  <2>2. proc'[p] = [proc[p] EXCEPT !.pc = pc, !.sticky = s]
    BY <1>1, <2>1
  <2> QED BY <1>1, <1>2, <2>1, <2>2 DEF Continues, Moves, ProcRecords
<1> QED BY <1>3, <1>4

(* A process that stops holds nothing.                                     *)
LEMMA StopMoves ==
    ASSUME TypeOK, NEW p \in Procs, Stop(p)
    PROVE  Moves(p) /\ ProcInv(p)'
<1>1. Idle \in ProcRecords
  BY DEF Idle, ProcRecords, PCs
<1>2. proc' = [proc EXCEPT ![p] = Idle] /\ proc'[p] = Idle
  BY ProcTyped DEF Stop
<1>3. Moves(p)
  BY <1>1, <1>2 DEF Moves
<1>4. ProcInv(p)'
  BY <1>2 DEF ProcInv, Idle, KeySteps, OrderSteps
<1> QED BY <1>3, <1>4

(* What every step leaves true of orders: none disappears, none loses its  *)
(* receipt, and its key only expires.                                      *)
Advance ==
    \A o \in Orders : /\ Created(o) => Created(o)'
                      /\ receipt[o] # "none" => receipt'[o] # "none"
                      /\ Created(o) => origin'[o] \in {origin[o], NoKey}

(* What a process holds is kept by every step but its own.                 *)
LEMMA OthersProcInv ==
    ASSUME TypeOK, NEW p \in Procs, ProcInv(p), Advance, proc'[p] = proc[p]
    PROVE  ProcInv(p)'
<1>1. proc[p] \in ProcRecords
  BY ProcTyped
<1>2. proc[p].order = NoOrder \/ proc[p].order \in Orders
  BY <1>1 DEF ProcRecords
<1>3. (proc[p].pc \in KeySteps => proc[p].key # NoKey)' /\ (proc[p].pc \in OrderSteps => proc[p].order # NoOrder)'
  BY DEF ProcInv
<1>4. (proc[p].order # NoOrder => Created(proc[p].order))'
  BY <1>2 DEF ProcInv, Advance, Created
<1>5. (proc[p].order # NoOrder /\ proc[p].key # NoKey => origin[proc[p].order] \in {proc[p].key, NoKey})'
  BY <1>2 DEF ProcInv, Advance
<1>6. (proc[p].pc = "ready" => receipt[proc[p].order] # "none")'
  BY <1>2 DEF ProcInv, Advance, OrderSteps
<1> QED BY <1>3, <1>4, <1>5, <1>6 DEF ProcInv

(* All processes at once: p moves, or nobody does.                         *)
LEMMA AllProcInv ==
    ASSUME CheckoutInv, Advance,
           \/ UNCHANGED proc
           \/ \E p \in Procs : Moves(p) /\ ProcInv(p)'
    PROVE  (\A p \in Procs : ProcInv(p))' /\ proc' \in [Procs -> ProcRecords]
<1> USE DEF CheckoutInv
<1>1. proc \in [Procs -> ProcRecords]
  BY ProcTyped
<1>2. CASE UNCHANGED proc
  BY <1>1, <1>2, OthersProcInv
<1>3. ASSUME NEW p \in Procs, Moves(p), ProcInv(p)'
      PROVE  (\A q \in Procs : ProcInv(q))' /\ proc' \in [Procs -> ProcRecords]
  <2>1. \A q \in Procs \ {p} : proc'[q] = proc[q]
    BY <1>1, <1>3 DEF Moves
  <2> QED BY <1>1, <1>3, <2>1, OthersProcInv DEF Moves
<1> QED BY <1>2, <1>3

(* The rest of the invariant, where a step changes nothing but processes.  *)
dataVars == <<op, order, origin, cart, release, receipt>>

LEMMA OnlyProcs ==
    ASSUME CheckoutInv, UNCHANGED dataVars, faults' \in 0..MaxFaults,
           \/ UNCHANGED proc
           \/ \E p \in Procs : Moves(p) /\ ProcInv(p)'
    PROVE  CheckoutInv'
<1>1. Advance
  BY DEF Advance, Created, dataVars
<1>2. (\A p \in Procs : ProcInv(p))' /\ proc' \in [Procs -> ProcRecords]
  BY <1>1, AllProcInv
<1>3. TypeOK'
  BY <1>2 DEF CheckoutInv, TypeOK, dataVars, ProcRecords, PCs
<1>4. (\A k \in Keys : OpInv(k))'
  BY DEF CheckoutInv, OpInv, Created, dataVars
<1>5. (\A o \in Orders : OrderInv(o))'
  BY DEF CheckoutInv, OrderInv, Created, dataVars
<1>6. CartInv'
  BY DEF CheckoutInv, CartInv, OpenCarts, dataVars
<1> QED BY <1>2, <1>3, <1>4, <1>5, <1>6 DEF CheckoutInv

LEMMA InitInv == Init => CheckoutInv
<1> SUFFICES ASSUME Init PROVE CheckoutInv
  OBVIOUS
<1> USE DEF Init
<1>1. TypeOK
  BY MaxFaultsAssumption DEF TypeOK, Idle, Inv!Statuses
<1>2. ASSUME NEW p \in Procs PROVE ProcInv(p)
  BY DEF ProcInv, Idle, KeySteps, OrderSteps
<1>3. ASSUME NEW k \in Keys PROVE OpInv(k)
  BY DEF OpInv
<1>4. ASSUME NEW o \in Orders PROVE OrderInv(o)
  BY DEF OrderInv, Created
<1>5. CartInv
  BY DEF CartInv, OpenCarts
<1> QED BY <1>1, <1>2, <1>3, <1>4, <1>5 DEF CheckoutInv

----------------------------------------------------------------------------
(* Steps that move one process and nothing else.                           *)

LEMMA ContinuesInv ==
    ASSUME CheckoutInv, NEW p \in Procs, NEW pc \in PCs, Continues(p, pc), Advance,
           pc \in KeySteps => proc[p].pc \in KeySteps,
           pc \in OrderSteps => proc[p].pc \in OrderSteps,
           pc = "ready" => receipt'[proc[p].order] # "none"
    PROVE  Moves(p) /\ ProcInv(p)'
<1>1. proc[p] \in ProcRecords /\ ProcInv(p)
  BY ProcTyped DEF CheckoutInv
<1>2. proc[p].order = NoOrder \/ proc[p].order \in Orders
  BY <1>1 DEF ProcRecords
<1>3. (proc[p].pc \in KeySteps => proc[p].key # NoKey)' /\ (proc[p].pc \in OrderSteps => proc[p].order # NoOrder)'
  BY <1>1 DEF Continues, ProcInv
<1>4. (proc[p].order # NoOrder => Created(proc[p].order))'
  BY <1>1, <1>2 DEF Continues, ProcInv, Advance, Created
<1>5. (proc[p].order # NoOrder /\ proc[p].key # NoKey => origin[proc[p].order] \in {proc[p].key, NoKey})'
  BY <1>1, <1>2 DEF Continues, ProcInv, Advance
<1>6. (proc[p].pc = "ready" => receipt[proc[p].order] # "none")'
  BY DEF Continues
<1> QED BY <1>3, <1>4, <1>5, <1>6 DEF ProcInv, Continues

LEMMA RunningStepInv ==
    ASSUME CheckoutInv, NEW p \in Procs,
           \/ SettleOpenCartConsumptions(p) \/ PlanFails(p) \/ ReserveAnswers(p) \/ ReserveFails(p)
           \/ AbandonErrs(p) \/ ReadyStale(p) \/ ReadyErrs(p) \/ Crash(p)
    PROVE  CheckoutInv'
<1>1. TypeOK
  BY DEF CheckoutInv
<1>2. UNCHANGED dataVars
  BY DEF dataVars, SettleOpenCartConsumptions, PlanFails, ReserveAnswers, ReserveFails, AbandonErrs,
         ReadyStale, ReadyErrs, Crash
<1>3. faults' \in 0..MaxFaults
  BY <1>1, MaxFaultsAssumption
     DEF TypeOK, SettleOpenCartConsumptions, PlanFails, ReserveAnswers, ReserveFails, AbandonErrs,
         ReadyStale, ReadyErrs, Crash, FaultHappens
<1>4. Advance
  BY <1>2 DEF Advance, Created, dataVars
<1>5. (\E pc \in PCs : /\ Continues(p, pc)
                       /\ pc \in KeySteps => proc[p].pc \in KeySteps
                       /\ pc \in OrderSteps => proc[p].pc \in OrderSteps
                       /\ pc = "ready" => receipt[proc[p].order] # "none")
      \/ Stop(p)
  <2>1. CASE SettleOpenCartConsumptions(p)
    <3>1. Continues(p, "plan") \/ Continues(p, "fail")
      BY <1>1, <2>1, GotoContinues, StepNames DEF SettleOpenCartConsumptions
    <3> QED BY <2>1, <3>1, StepNames DEF SettleOpenCartConsumptions, KeySteps, OrderSteps
  <2>2. CASE PlanFails(p)
    <3>1. Continues(p, "fail")
      BY <1>1, <2>2, GotoContinues, StepNames DEF PlanFails
    <3> QED BY <2>2, <3>1, StepNames DEF PlanFails, KeySteps, OrderSteps
  <2>3. CASE ReserveAnswers(p)
    <3>1. Continues(p, "ready")
      BY <1>1, <2>3, GotoContinues, StepNames DEF ReserveAnswers
    <3> QED BY <2>3, <3>1, StepNames DEF ReserveAnswers, KeySteps, OrderSteps
  <2>4. CASE ReserveFails(p)
    <3>1. Continues(p, "abandon")
      BY <1>1, <2>4, GotoContinues, StepNames DEF ReserveFails
    <3> QED BY <2>4, <3>1, StepNames DEF ReserveFails, KeySteps, OrderSteps
  <2>5. CASE AbandonErrs(p)
    <3>1. proc[p].pc \in {"abandon", "dropcart"} /\ (Continues(p, "dropcart") \/ Continues(p, "fail"))
      BY <1>1, <2>5, GotoContinues, StepNames DEF AbandonErrs
    <3> QED BY <3>1, StepNames DEF KeySteps, OrderSteps
  <2>6. CASE ReadyStale(p) \/ ReadyErrs(p)
    <3>1. proc[p].pc = "ready" /\ (Continues(p, "fail") \/ Stop(p))
      BY <1>1, <2>6, GotoContinues, StepNames DEF ReadyStale, ReadyErrs, AfterReadyError
    <3> QED BY <3>1, StepNames DEF KeySteps, OrderSteps
  <2>7. CASE Crash(p)
    BY <2>7 DEF Crash
  <2> QED BY <2>1, <2>2, <2>3, <2>4, <2>5, <2>6, <2>7
<1>6. Moves(p) /\ ProcInv(p)'
  <2>1. receipt' = receipt
    BY <1>2 DEF dataVars
  <2> QED BY <1>1, <1>4, <1>5, <2>1, ContinuesInv, StopMoves
<1> QED BY <1>2, <1>3, <1>6, OnlyProcs

(* A worker picks up a stale operation: the branch that completes it       *)
(* because its order is ready is never taken.                              *)
LEMMA RecoverCheckoutInv ==
    ASSUME CheckoutInv, NEW w \in Workers, NEW k \in Keys, RecoverCheckout(w, k)
    PROVE  CheckoutInv'
<1> DEFINE o == op[k].order
<1> USE DEF CheckoutInv
<1>1. w \in Procs /\ o \in Orders \cup {NoOrder} /\ OpInv(k) /\ k # NoKey /\ op[k].status = "preparing"
  BY NoKeyAssumption DEF Procs, TypeOK, RecoverCheckout
<1>2. PICK pc \in {"fail", "ready", "abandon"}, s \in BOOLEAN :
         /\ proc' = [proc EXCEPT ![w] = [pc |-> pc, key |-> k, order |-> o, sticky |-> s]]
         /\ op' = op
         /\ pc \in {"ready", "abandon"} => o # NoOrder
         /\ pc = "ready" => receipt[o] # "none"
  <2>1. CASE o = NoOrder
    BY <2>1 DEF RecoverCheckout
  <2>2. CASE o # NoOrder
    <3>1. order[o].checkout # "ready"
      BY <1>1, <2>2 DEF OpInv
    <3>2. CASE order[o].status = "cancelled"
      BY <2>2, <3>1, <3>2 DEF RecoverCheckout
    <3>3. CASE order[o].status # "cancelled"
      BY <2>2, <3>1, <3>3 DEF RecoverCheckout
    <3> QED BY <3>2, <3>3
  <2> QED BY <2>1, <2>2
<1> DEFINE r == [pc |-> pc, key |-> k, order |-> o, sticky |-> s]
<1>3. r \in ProcRecords
  BY <1>1, StepNames DEF ProcRecords
<1>4. proc'[w] = r
  BY <1>1, <1>2, ProcTyped
<1>5. Moves(w)
  BY <1>2, <1>3, <1>4 DEF Moves
<1>6. UNCHANGED dataVars /\ faults' \in 0..MaxFaults
  BY <1>2 DEF RecoverCheckout, dataVars, TypeOK
<1>7. ProcInv(w)'
  <2>1. o # NoOrder => Created(o) /\ origin[o] = k
    BY <1>1 DEF OpInv
  <2>2. UNCHANGED <<order, origin, receipt>>
    BY <1>6 DEF dataVars
  <2>3. proc'[w].pc = pc /\ proc'[w].key = k /\ proc'[w].order = o
    BY <1>4
  <2> QED BY <1>1, <1>2, <2>1, <2>2, <2>3 DEF ProcInv, Created, OrderSteps
<1> QED BY <1>1, <1>5, <1>6, <1>7, OnlyProcs

LEMMA ResolveHeldInv ==
    ASSUME CheckoutInv, NEW w \in Workers, NEW o \in Orders, ResolveHeld(w, o)
    PROVE  CheckoutInv'
<1> USE DEF CheckoutInv
<1>1. w \in Procs /\ o # NoOrder /\ Created(o)
  BY NoOrderAssumption DEF Procs, ResolveHeld, OrderInv
<1>2. PICK pc \in {"dropheld", "activate"} : proc' = [proc EXCEPT ![w] = [Idle EXCEPT !.pc = pc, !.order = o]]
  BY DEF ResolveHeld
<1> DEFINE r == [Idle EXCEPT !.pc = pc, !.order = o]
<1>3. r \in ProcRecords /\ r.pc = pc /\ r.order = o /\ r.key = NoKey
  BY StepNames DEF ProcRecords, Idle
<1> HIDE DEF r
<1>4. proc' = [proc EXCEPT ![w] = r] /\ proc'[w] = r
  BY <1>1, <1>2, ProcTyped DEF r
<1>5. Moves(w)
  BY <1>3, <1>4 DEF Moves
<1>6. UNCHANGED dataVars /\ faults' \in 0..MaxFaults
  BY DEF ResolveHeld, dataVars, TypeOK
<1>7. ProcInv(w)'
  BY <1>1, <1>3, <1>4, <1>6 DEF ProcInv, Created, KeySteps, dataVars
<1> QED BY <1>1, <1>5, <1>6, <1>7, OnlyProcs

----------------------------------------------------------------------------
(* Steps of cart tasks.                                                    *)

LEMMA CartSteps ==
    ASSUME CheckoutInv, UNCHANGED <<op, order, origin, release, receipt>>, faults' \in 0..MaxFaults,
           NEW o \in Orders, NEW status \in {"cancelled", "pending", "consumed", "parked"},
           \/ cart[o] \in {"held", "pending", "parked"} /\ cart' = [cart EXCEPT ![o] = status]
           \/ UNCHANGED cart,
           \/ UNCHANGED proc
           \/ \E p \in Procs : Moves(p) /\ ProcInv(p)'
    PROVE  CheckoutInv'
<1> USE DEF CheckoutInv
<1>1. Advance
  BY DEF Advance, Created
<1>2. (\A p \in Procs : ProcInv(p))' /\ proc' \in [Procs -> ProcRecords]
  BY <1>1, AllProcInv
<1>3. cart' \in [Orders -> {"none", "held", "pending", "consumed", "cancelled", "parked"}]
  BY DEF TypeOK
<1>4. TypeOK'
  BY <1>2, <1>3 DEF TypeOK, ProcRecords, PCs
<1>5. (\A k \in Keys : OpInv(k))'
  BY DEF OpInv, Created
<1>6. ASSUME NEW x \in Orders PROVE OrderInv(x)'
  <2>1. cart'[x] # "none" => cart[x] # "none"
    BY DEF TypeOK
  <2> QED BY <2>1 DEF OrderInv, Created
<1>7. CartInv'
  <2>1. OpenCarts' \subseteq OpenCarts
    BY DEF OpenCarts, TypeOK
  <2> QED BY <2>1 DEF CartInv
<1> QED BY <1>2, <1>4, <1>5, <1>6, <1>7

LEMMA CartStepInv ==
    ASSUME CheckoutInv,
           \/ \E p \in Procs : DropCart(p) \/ Activate(p) \/ DropHeld(p)
           \/ \E o \in Orders : ConsumeCart(o) \/ ParkCart(o)
    PROVE  CheckoutInv'
<1> USE DEF CheckoutInv
<1>1. TypeOK
  OBVIOUS
<1>2. ASSUME NEW p \in Procs, DropCart(p) \/ Activate(p) \/ DropHeld(p) PROVE CheckoutInv'
  <2> DEFINE o == proc[p].order
  <2>1. o \in Orders
    BY <1>2, ProcTyped DEF DropCart, Activate, DropHeld, ProcInv, OrderSteps, ProcRecords
  <2>2. /\ UNCHANGED <<op, order, origin, release, receipt>> /\ faults' \in 0..MaxFaults
    BY <1>2 DEF DropCart, Activate, DropHeld, TypeOK
  <2>3. Advance
    BY <2>2 DEF Advance, Created
  <2>4. Moves(p) /\ ProcInv(p)'
    <3>1. CASE DropCart(p)
      <4>1. Continues(p, "fail")
        BY <3>1, GotoContinues, StepNames DEF DropCart
      <4>2. "fail" \in PCs /\ "fail" \notin OrderSteps /\ proc[p].pc \in KeySteps
        BY <3>1 DEF DropCart, KeySteps, OrderSteps, PCs, RequestSteps
      <4> QED BY <2>3, <4>1, <4>2, ContinuesInv
    <3>2. CASE Activate(p) \/ DropHeld(p)
      BY <3>2, StopMoves DEF Activate, DropHeld
    <3> QED BY <1>2, <3>1, <3>2
  <2>5. \/ cart[o] = "held" /\ \E status \in {"cancelled", "pending"} : cart' = [cart EXCEPT ![o] = status]
        \/ UNCHANGED cart
    <3>1. \A status : [cart EXCEPT ![o] = IF @ = "held" THEN status ELSE @]
                        = IF cart[o] = "held" THEN [cart EXCEPT ![o] = status] ELSE cart
      BY <2>1 DEF TypeOK
    <3> QED BY <1>2, <3>1 DEF DropCart, Activate, DropHeld, CancelCartTask
  <2> HIDE DEF o
  <2> QED BY <2>1, <2>2, <2>4, <2>5, CartSteps
<1>3. ASSUME NEW o \in Orders, ConsumeCart(o) PROVE CheckoutInv'
  BY <1>3, CartSteps DEF ConsumeCart, TypeOK
<1>4. ASSUME NEW o \in Orders, ParkCart(o) PROVE CheckoutInv'
  <2>1. faults' \in 0..MaxFaults
    BY <1>4, MaxFaultsAssumption DEF ParkCart, FaultHappens, TypeOK
  <2> QED BY <1>4, <2>1, CartSteps DEF ParkCart
<1> QED BY <1>2, <1>3, <1>4

----------------------------------------------------------------------------
(* Steps of Inventory, of the release effect, and of the order itself.     *)

(* Steps that keep operations, keys, carts and processes: they are right   *)
(* when each order they touch is.                                          *)
LEMMA StockSteps ==
    ASSUME CheckoutInv, UNCHANGED <<op, origin, cart, proc>>, faults' \in 0..MaxFaults,
           order' \in [Orders -> [status : {"none", "pending_payment", "paid", "cancelled"},
                                  checkout : {"none", "preparing", "ready", "failed"}]],
           release' \in [Orders -> {"none", "pending", "done", "parked"}],
           receipt' \in [Orders -> Inv!Statuses],
           \A o \in Orders :
              /\ OrderInv(o)'
              /\ Created(o) <=> Created(o)'
              /\ order[o].checkout = "ready" <=> order'[o].checkout = "ready"
              /\ receipt[o] # "none" => receipt'[o] # "none"
    PROVE  CheckoutInv'
<1> USE DEF CheckoutInv
<1>1. Advance
  BY DEF Advance
<1>2. (\A p \in Procs : ProcInv(p))'
  BY <1>1, AllProcInv
<1>3. TypeOK'
  BY DEF TypeOK
<1>4. ASSUME NEW k \in Keys PROVE OpInv(k)'
  <2>1. op[k].order = NoOrder \/ op[k].order \in Orders
    BY DEF TypeOK
  <2> QED BY <2>1 DEF OpInv, Created
<1>5. CartInv'
  BY DEF CartInv, OpenCarts
<1> QED BY <1>2, <1>3, <1>4, <1>5

LEMMA ReceiptStepInv ==
    ASSUME CheckoutInv, NEW o \in Orders,
           ReserveArrives(o) \/ HoldExpires(o) \/ MarkPaidRollsBack(o)
    PROVE  CheckoutInv'
<1> USE DEF CheckoutInv
<1>1. /\ UNCHANGED <<op, order, origin, cart, release, proc>> /\ faults' \in 0..MaxFaults
  BY MaxFaultsAssumption DEF ReserveArrives, HoldExpires, MarkPaidRollsBack, FaultHappens, TypeOK
<1>2. \/ receipt[o] = "none" /\ receipt' = [receipt EXCEPT ![o] = "held"]
      \/ receipt[o] = "held" /\ receipt' = [receipt EXCEPT ![o] = "expired"]
      \/ receipt[o] = "held" /\ receipt' = [receipt EXCEPT ![o] = "committed"]
  BY DEF ReserveArrives, HoldExpires, MarkPaidRollsBack, Inv!Hold, Inv!Expire, Inv!Commit
<1>3. receipt' \in [Orders -> Inv!Statuses]
  BY <1>2 DEF TypeOK, Inv!Statuses
<1>4. ASSUME NEW x \in Orders PROVE OrderInv(x)' /\ (receipt[x] # "none" => receipt'[x] # "none")
  <2>1. OrderInv(x)
    OBVIOUS
  <2>2. CASE x # o
    <3>1. receipt'[x] = receipt[x]
      BY <1>2, <2>2 DEF TypeOK
    <3> QED BY <1>1, <2>1, <3>1 DEF OrderInv, Created
  <2>3. CASE x = o
    <3>1. /\ receipt'[o] \in {"held", "expired", "committed"}
          /\ receipt[o] \in {"none", "held"}
      BY <1>2 DEF TypeOK
    <3> QED BY <1>1, <2>1, <2>3, <3>1 DEF OrderInv, Created
  <2> QED BY <2>2, <2>3
<1>5. order' = order /\ order \in [Orders -> [status : {"none", "pending_payment", "paid", "cancelled"},
                                              checkout : {"none", "preparing", "ready", "failed"}]]
  BY <1>1 DEF TypeOK
<1>6. release' \in [Orders -> {"none", "pending", "done", "parked"}]
  BY <1>1 DEF TypeOK
<1> QED BY <1>1, <1>3, <1>4, <1>5, <1>6, StockSteps DEF Created

LEMMA ReleaseStepInv ==
    ASSUME CheckoutInv, NEW o \in Orders,
           RunRelease(o) \/ RunReleaseUnanswered(o) \/ ReplayEffect(o)
    PROVE  CheckoutInv'
<1> USE DEF CheckoutInv
<1>1. /\ UNCHANGED <<op, order, origin, cart, proc>> /\ faults' \in 0..MaxFaults
  BY MaxFaultsAssumption DEF RunRelease, RunReleaseUnanswered, ReplayEffect, FaultHappens, TypeOK
<1>2. /\ release[o] \in {"pending", "parked"} /\ order[o].status = "cancelled"
      /\ release' \in [Orders -> {"none", "pending", "done", "parked"}] /\ release'[o] # "none"
      /\ \A x \in Orders \ {o} : release'[x] = release[x]
  <2>1. release[o] \in {"pending", "parked"}
    BY DEF RunRelease, RunReleaseUnanswered, ReplayEffect
  <2>2. \E status \in {"pending", "done", "parked"} : release' = [release EXCEPT ![o] = status]
    BY DEF RunRelease, RunReleaseUnanswered, ReplayEffect
  <2> QED BY <2>1, <2>2 DEF TypeOK, OrderInv
<1>3. /\ \/ receipt' = receipt
         \/ receipt[o] \in {"none", "held"} /\ receipt' = [receipt EXCEPT ![o] = "released"]
      /\ release'[o] = "done" => receipt'[o] \in {"released", "expired"}
  <2>1. ReleaseCall(o) => IF receipt[o] \in {"none", "held"} THEN receipt' = [receipt EXCEPT ![o] = "released"]
                          ELSE receipt' = receipt
    BY DEF ReleaseCall, Inv!Release
  <2>2. CASE RunRelease(o)
    <3>1. release'[o] = "done" => receipt[o] # "committed"
      BY <2>2 DEF RunRelease, TypeOK
    <3> QED BY <2>1, <2>2, <3>1 DEF RunRelease, TypeOK, Inv!Statuses
  <2>3. CASE RunReleaseUnanswered(o) \/ ReplayEffect(o)
    <3>1. release'[o] # "done"
      BY <2>3 DEF RunReleaseUnanswered, ReplayEffect, TypeOK
    <3> QED BY <2>1, <2>3, <3>1 DEF RunReleaseUnanswered, ReplayEffect
  <2> QED BY <2>2, <2>3
<1>4. receipt' \in [Orders -> Inv!Statuses]
  BY <1>3 DEF TypeOK, Inv!Statuses
<1>5. ASSUME NEW x \in Orders PROVE OrderInv(x)' /\ (receipt[x] # "none" => receipt'[x] # "none")
  <2>1. OrderInv(x)
    OBVIOUS
  <2>2. CASE x # o
    <3>1. receipt'[x] = receipt[x] /\ release'[x] = release[x]
      BY <1>2, <1>3, <2>2 DEF TypeOK
    <3> QED BY <1>1, <2>1, <3>1 DEF OrderInv, Created
  <2>3. CASE x = o
    <3>1. receipt'[o] = receipt[o] \/ receipt'[o] = "released"
      BY <1>3 DEF TypeOK
    <3> QED BY <1>1, <1>2, <1>3, <2>1, <2>3, <3>1 DEF OrderInv, Created
  <2> QED BY <2>2, <2>3
<1>6. order' = order /\ order \in [Orders -> [status : {"none", "pending_payment", "paid", "cancelled"},
                                              checkout : {"none", "preparing", "ready", "failed"}]]
  BY <1>1 DEF TypeOK
<1> QED BY <1>1, <1>2, <1>4, <1>5, <1>6, StockSteps DEF Created

(* cancelLocked at an order that exists and is not cancelled.              *)
LEMMA CancelEffect ==
    ASSUME CheckoutInv, NEW o \in Orders, order[o].status \notin {"none", "cancelled"},
           cancelLocked(o), UNCHANGED <<op, origin, cart, receipt>>
    PROVE  /\ order' \in [Orders -> [status : {"none", "pending_payment", "paid", "cancelled"},
                                     checkout : {"none", "preparing", "ready", "failed"}]]
           /\ release' \in [Orders -> {"none", "pending", "done", "parked"}]
           /\ \A x \in Orders : /\ OrderInv(x)'
                                /\ Created(x) <=> Created(x)'
                                /\ order[x].checkout = "ready" <=> order'[x].checkout = "ready"
<1> USE DEF CheckoutInv
<1> DEFINE s == IF order[o].checkout = "preparing" THEN "failed" ELSE order[o].checkout
<1>1. order' = [order EXCEPT ![o] = [status |-> "cancelled", checkout |-> s]] /\ order[o].status \notin {"none", "cancelled"}
  BY DEF cancelLocked
<1>2. s \in {"ready", "failed"} /\ (s = "ready" <=> order[o].checkout = "ready")
  BY <1>1 DEF TypeOK, OrderInv
<1> HIDE DEF s
<1>3. release' = [release EXCEPT ![o] = "pending"]
  BY <1>1 DEF cancelLocked, TypeOK, OrderInv
<1>4. /\ order'[o].status = "cancelled" /\ order'[o].checkout = s /\ release'[o] = "pending"
      /\ \A x \in Orders \ {o} : order'[x] = order[x] /\ release'[x] = release[x]
  BY <1>1, <1>3 DEF TypeOK
<1>5. /\ order' \in [Orders -> [status : {"none", "pending_payment", "paid", "cancelled"},
                                checkout : {"none", "preparing", "ready", "failed"}]]
      /\ release' \in [Orders -> {"none", "pending", "done", "parked"}]
  BY <1>1, <1>2, <1>3 DEF TypeOK
<1>6. ASSUME NEW x \in Orders
      PROVE  /\ OrderInv(x)'
             /\ Created(x) <=> Created(x)'
             /\ order[x].checkout = "ready" <=> order'[x].checkout = "ready"
  <2>1. OrderInv(x)
    OBVIOUS
  <2>2. CASE x # o
    BY <1>4, <2>1, <2>2 DEF OrderInv, Created
  <2>3. CASE x = o
    BY <1>1, <1>2, <1>4, <2>1, <2>3 DEF OrderInv, Created
  <2> QED BY <2>2, <2>3
<1> QED BY <1>5, <1>6

LEMMA CancelStepInv ==
    ASSUME CheckoutInv, NEW o \in Orders, CancelOrder(o) \/ ReservationExpired(o)
    PROVE  CheckoutInv'
<1>1. cancelLocked(o) /\ UNCHANGED <<op, origin, cart, receipt, proc, faults>>
  BY DEF CancelOrder, ReservationExpired
<1>3. order[o].status = "pending_payment"
  BY DEF CancelOrder, ReservationExpired, Cancellable
<1>2. receipt' \in [Orders -> Inv!Statuses] /\ faults' \in 0..MaxFaults
  BY <1>1 DEF CheckoutInv, TypeOK
<1> QED BY <1>1, <1>2, <1>3, CancelEffect, StockSteps

LEMMA MarkPaidInv ==
    ASSUME CheckoutInv, NEW o \in Orders, MarkPaid(o)
    PROVE  CheckoutInv'
<1> USE DEF CheckoutInv
<1>1. /\ UNCHANGED <<op, origin, cart, release, proc, faults>>
      /\ order[o].status = "pending_payment" /\ order[o].checkout = "ready"
  BY DEF MarkPaid, Payable
<1>2. order' = [order EXCEPT ![o] = [order[o] EXCEPT !.status = "paid"]]
  BY DEF MarkPaid
<1>3. /\ order'[o].status = "paid" /\ order'[o].checkout = "ready"
      /\ \A x \in Orders \ {o} : order'[x] = order[x]
  BY <1>1, <1>2 DEF TypeOK
<1>4. order' \in [Orders -> [status : {"none", "pending_payment", "paid", "cancelled"},
                             checkout : {"none", "preparing", "ready", "failed"}]]
  BY <1>2 DEF TypeOK
<1>5. /\ receipt' \in [Orders -> Inv!Statuses] /\ receipt'[o] = "committed"
      /\ \A x \in Orders \ {o} : receipt'[x] = receipt[x]
  BY DEF MarkPaid, Inv!Commit, TypeOK, Inv!Statuses
<1>6. ASSUME NEW x \in Orders
      PROVE  /\ OrderInv(x)'
             /\ Created(x) <=> Created(x)'
             /\ order[x].checkout = "ready" <=> order'[x].checkout = "ready"
             /\ receipt[x] # "none" => receipt'[x] # "none"
  <2>1. OrderInv(x)
    OBVIOUS
  <2>2. CASE x # o
    BY <1>1, <1>3, <1>5, <2>1, <2>2 DEF OrderInv, Created
  <2>3. CASE x = o
    BY <1>1, <1>3, <1>5, <2>1, <2>3 DEF OrderInv, Created
  <2> QED BY <2>2, <2>3
<1>7. release' \in [Orders -> {"none", "pending", "done", "parked"}] /\ faults' \in 0..MaxFaults
  BY <1>1 DEF TypeOK
<1> QED BY <1>1, <1>4, <1>5, <1>6, <1>7, StockSteps

----------------------------------------------------------------------------
(* Steps of operations.                                                    *)

LEMMA BeginInv ==
    ASSUME CheckoutInv, NEW r \in Requests, NEW k \in Keys, Begin(r, k)
    PROVE  CheckoutInv'
<1> USE DEF CheckoutInv
<1>1. r \in Procs /\ k # NoKey
  BY NoKeyAssumption DEF Procs
<1>2. UNCHANGED <<order, origin, cart, release, receipt>> /\ faults' \in 0..MaxFaults
  BY DEF Begin, TypeOK
<1>3. Advance
  BY <1>2 DEF Advance, Created
<1> DEFINE n == [status |-> "preparing", order |-> NoOrder, sticky |-> FALSE]
           rec == [Idle EXCEPT !.pc = "settle", !.key = k]
<1>4. op' = [op EXCEPT ![k] = n] /\ op'[k].status = "preparing" /\ op'[k].order = NoOrder
      /\ \A l \in Keys \ {k} : op'[l] = op[l]
  BY DEF Begin, TypeOK
<1>5. Moves(r) /\ ProcInv(r)'
  <2>1. rec \in ProcRecords /\ rec.pc = "settle" /\ rec.key = k /\ rec.order = NoOrder
    BY StepNames DEF ProcRecords, Idle
  <2> HIDE DEF rec
  <2>2. proc' = [proc EXCEPT ![r] = rec]
    BY DEF Begin, rec
  <2>3. proc'[r] = rec
    BY <1>1, <2>2, ProcTyped
  <2> QED BY <1>1, <2>1, <2>2, <2>3 DEF Moves, ProcInv, OrderSteps
<1>6. (\A p \in Procs : ProcInv(p))' /\ proc' \in [Procs -> ProcRecords]
  BY <1>1, <1>3, <1>5, AllProcInv
<1>7. TypeOK'
  BY <1>2, <1>4, <1>6 DEF TypeOK, ProcRecords, PCs
<1>8. ASSUME NEW l \in Keys PROVE OpInv(l)'
  BY <1>2, <1>4 DEF OpInv, Created
<1>9. ASSUME NEW o \in Orders PROVE OrderInv(o)'
  <2>1. order[o].checkout = "ready" => origin[o] # k
    BY <1>1 DEF OrderInv, Begin
  <2>2. origin[o] \in Keys \cup {NoKey}
    BY DEF TypeOK
  <2> QED BY <1>2, <1>4, <2>1, <2>2 DEF OrderInv, Created
<1>10. CartInv'
  <2>1. OpenCarts = {} /\ \A l \in Keys : op[l].status # "preparing"
    BY DEF Begin, Busy
  <2>2. OpenCarts' = OpenCarts
    BY <1>2 DEF OpenCarts
  <2> QED BY <1>4, <2>1, <2>2 DEF CartInv
<1> QED BY <1>6, <1>7, <1>8, <1>9, <1>10

LEMMA FailOperationInv ==
    ASSUME CheckoutInv, NEW p \in Procs, FailOperation(p)
    PROVE  CheckoutInv'
<1> DEFINE k == proc[p].key
<1> USE DEF CheckoutInv
<1>1. k \in Keys /\ proc[p].sticky \in BOOLEAN
  BY ProcTyped DEF FailOperation, ProcInv, KeySteps, ProcRecords
<1>2. UNCHANGED <<order, origin, cart, release, receipt>> /\ faults' \in 0..MaxFaults
  BY DEF FailOperation, TypeOK
<1>3. Advance
  BY <1>2 DEF Advance, Created
<1>4. Moves(p) /\ ProcInv(p)'
  BY StopMoves DEF FailOperation
<1>5. (\A q \in Procs : ProcInv(q))' /\ proc' \in [Procs -> ProcRecords]
  BY <1>3, <1>4, AllProcInv
<1>6. \/ op' = op
      \/ op[k].status = "preparing"
         /\ op' = [op EXCEPT ![k] = [op[k] EXCEPT !.status = "failed", !.sticky = proc[p].sticky]]
  BY <1>1 DEF FailOperation, TypeOK
<1> HIDE DEF k
<1>7. /\ op' \in [Keys -> OpRecords]
      /\ \A l \in Keys : /\ op'[l].order = op[l].order
                         /\ \/ op'[l].status = op[l].status
                            \/ op[l].status = "preparing" /\ op'[l].status = "failed"
  <2> DEFINE rec == [op[k] EXCEPT !.status = "failed", !.sticky = proc[p].sticky]
  <2>1. op \in [Keys -> OpRecords] /\ op[k] \in OpRecords
    BY <1>1, OpTyped
  <2>2. rec \in OpRecords /\ rec.status = "failed" /\ rec.order = op[k].order
    BY <1>1, <2>1 DEF OpRecords
  <2> HIDE DEF rec
  <2>3. op' = op \/ (op[k].status = "preparing" /\ op' = [op EXCEPT ![k] = rec])
    BY <1>6 DEF rec
  <2> QED BY <1>1, <2>1, <2>2, <2>3
<1>8. TypeOK'
  BY <1>2, <1>5, <1>7 DEF TypeOK, OpRecords, ProcRecords, PCs
<1>9. ASSUME NEW l \in Keys PROVE OpInv(l)'
  BY <1>2, <1>7 DEF OpInv, Created
<1>10. ASSUME NEW o \in Orders PROVE OrderInv(o)'
  <2>1. origin[o] \in Keys \cup {NoKey}
    BY DEF TypeOK
  <2> QED BY <1>2, <1>7, <2>1 DEF OrderInv, Created
<1>11. CartInv'
  <2>1. OpenCarts' = OpenCarts
    BY <1>2 DEF OpenCarts
  <2> QED BY <1>7, <2>1 DEF CartInv
<1> QED BY <1>5, <1>8, <1>9, <1>10, <1>11

LEMMA KeyExpiresInv ==
    ASSUME CheckoutInv, NEW k \in Keys, KeyExpires(k)
    PROVE  CheckoutInv'
<1> USE DEF CheckoutInv
<1>1. UNCHANGED <<order, cart, release, receipt, proc>> /\ faults' \in 0..MaxFaults /\ k # NoKey
  BY NoKeyAssumption DEF KeyExpires, TypeOK
<1>2. /\ op' = [op EXCEPT ![k] = [status |-> "none", order |-> NoOrder, sticky |-> FALSE]]
      /\ op'[k].status = "none" /\ op'[k].order = NoOrder
      /\ \A l \in Keys \ {k} : op'[l] = op[l]
  BY DEF KeyExpires, TypeOK
<1>3. \A o \in Orders : origin'[o] = IF origin[o] = k THEN NoKey ELSE origin[o]
  BY DEF KeyExpires
<1>4. Advance
  BY <1>1, <1>3 DEF Advance, Created
<1>5. (\A p \in Procs : ProcInv(p))'
  BY <1>1, <1>4, AllProcInv
<1>6. TypeOK'
  <2>1. origin' \in [Orders -> Keys \cup {NoKey}]
    BY DEF KeyExpires, TypeOK
  <2> QED BY <1>1, <1>2, <2>1 DEF TypeOK
<1>7. ASSUME NEW l \in Keys PROVE OpInv(l)'
  <2>1. op[l].order = NoOrder \/ op[l].order \in Orders
    BY DEF TypeOK
  <2> QED BY <1>1, <1>2, <1>3, <2>1 DEF OpInv, Created
<1>8. ASSUME NEW o \in Orders PROVE OrderInv(o)'
  <2>1. origin[o] \in Keys \cup {NoKey}
    BY DEF TypeOK
  <2> QED BY <1>1, <1>2, <1>3, <2>1 DEF OrderInv, Created
<1>9. CartInv'
  <2>1. OpenCarts' = OpenCarts
    BY <1>1 DEF OpenCarts
  <2> QED BY <1>2, <2>1 DEF CartInv
<1> QED BY <1>5, <1>6, <1>7, <1>8, <1>9

(* The transaction that creates the order and links it to its operation:   *)
(* nobody can have named the order before.                                 *)
LEMMA CreateFromPlanInv ==
    ASSUME CheckoutInv, NEW r \in Requests, CreateFromPlan(r)
    PROVE  CheckoutInv'
<1> DEFINE k == proc[r].key
<1> USE DEF CheckoutInv
<1>1. r \in Procs /\ k \in Keys /\ k # NoKey /\ proc[r].pc = "plan"
  BY ProcTyped DEF Procs, CreateFromPlan, ProcInv, KeySteps, ProcRecords
<1>2. CASE ~(op[k].status = "preparing" /\ op[k].order = NoOrder)
  <2>1. UNCHANGED dataVars /\ faults' \in 0..MaxFaults
    BY <1>2 DEF CreateFromPlan, dataVars, TypeOK
  <2>2. Continues(r, "fail") /\ "fail" \in PCs /\ "fail" \notin OrderSteps /\ "plan" \in KeySteps
    BY <1>1, <1>2, GotoContinues, StepNames DEF CreateFromPlan, OrderSteps, KeySteps
  <2>3. Advance
    BY <2>1 DEF Advance, Created, dataVars
  <2> QED BY <1>1, <2>1, <2>2, <2>3, ContinuesInv, OnlyProcs
<1>3. CASE op[k].status = "preparing" /\ op[k].order = NoOrder
  <2>1. PICK o \in Orders :
           /\ order[o].status = "none"
           /\ order' = [order EXCEPT ![o] = [status |-> "pending_payment", checkout |-> "preparing"]]
           /\ origin' = [origin EXCEPT ![o] = k]
           /\ cart' = [cart EXCEPT ![o] = "held"]
           /\ op' = [op EXCEPT ![k].order = o]
           /\ proc' = [proc EXCEPT ![r].pc = "reserve", ![r].order = o]
    BY <1>3 DEF CreateFromPlan
  <2> HIDE DEF k
  <2>2. UNCHANGED <<release, receipt>> /\ faults' \in 0..MaxFaults /\ o # NoOrder
    BY NoOrderAssumption DEF CreateFromPlan, TypeOK
  <2>3. /\ order'[o] = [status |-> "pending_payment", checkout |-> "preparing"] /\ origin'[o] = k
        /\ \A x \in Orders \ {o} : order'[x] = order[x] /\ origin'[x] = origin[x] /\ cart'[x] = cart[x]
    BY <2>1 DEF TypeOK
  <2>4. /\ op'[k].status = "preparing" /\ op'[k].order = o
        /\ \A l \in Keys \ {k} : op'[l] = op[l]
    BY <1>1, <1>3, <2>1 DEF TypeOK
  <2>5. Advance
    BY <2>1, <2>2, <2>3 DEF Advance, Created
  <2>6. Moves(r) /\ ProcInv(r)'
    <3> DEFINE rec == [proc[r] EXCEPT !.pc = "reserve", !.order = o]
    <3>1. proc[r] \in ProcRecords /\ proc \in [Procs -> ProcRecords]
      BY <1>1, ProcTyped
    <3>2. rec \in ProcRecords /\ rec.pc = "reserve" /\ rec.key = k /\ rec.order = o
      BY <3>1, StepNames DEF ProcRecords, k
    <3>3. proc' = [proc EXCEPT ![r] = rec]
      BY <1>1, <2>1, <3>1
    <3> HIDE DEF rec
    <3>4. proc'[r] = rec
      BY <1>1, <3>1, <3>3
    <3>5. Moves(r)
      BY <3>2, <3>3, <3>4 DEF Moves
    <3>6. proc'[r].pc = "reserve" /\ proc'[r].key = k /\ proc'[r].order = o
      BY <3>2, <3>4
    <3>7. order'[o].status # "none" /\ origin'[o] = k
      BY <2>3
    <3> QED BY <1>1, <2>2, <3>5, <3>6, <3>7 DEF ProcInv, Created
  <2>7. (\A p \in Procs : ProcInv(p))' /\ proc' \in [Procs -> ProcRecords]
    BY <1>1, <2>5, <2>6, AllProcInv
  <2>8. TypeOK'
    <3>1. op' \in [Keys -> OpRecords]
      <4> DEFINE rec == [op[k] EXCEPT !.order = o]
      <4>1. rec \in OpRecords
        BY <1>1, OpTyped DEF OpRecords
      <4>2. op' = [op EXCEPT ![k] = rec]
        BY <2>1
      <4> QED BY <4>1, <4>2, OpTyped
    <3>2. order' \in [Orders -> [status : {"none", "pending_payment", "paid", "cancelled"},
                                 checkout : {"none", "preparing", "ready", "failed"}]]
      BY <2>1 DEF TypeOK
    <3>3. /\ origin' \in [Orders -> Keys \cup {NoKey}]
          /\ cart' \in [Orders -> {"none", "held", "pending", "consumed", "cancelled", "parked"}]
      BY <1>1, <2>1 DEF TypeOK
    <3> QED BY <2>2, <2>7, <3>1, <3>2, <3>3 DEF TypeOK, OpRecords, ProcRecords, PCs
  <2>9. ASSUME NEW l \in Keys PROVE OpInv(l)'
    <3>1. CASE l = k
      BY <2>3, <2>4, <3>1 DEF OpInv, Created
    <3>2. CASE l # k
      <4>1. op[l].order # o /\ (op[l].order = NoOrder \/ op[l].order \in Orders)
        BY <2>1, <2>2 DEF OpInv, Created, TypeOK
      <4> QED BY <2>3, <2>4, <3>2, <4>1 DEF OpInv, Created
    <3> QED BY <3>1, <3>2
  <2>10. ASSUME NEW x \in Orders PROVE OrderInv(x)'
    <3>1. CASE x = o
      BY <2>1, <2>2, <2>3, <3>1 DEF OrderInv, Created
    <3>2. CASE x # o
      <4>1. order[x].checkout = "ready" => origin[x] # k
        BY <1>1, <1>3 DEF OrderInv
      <4>2. origin[x] \in Keys \cup {NoKey}
        BY DEF TypeOK
      <4> QED BY <2>2, <2>3, <2>4, <3>2, <4>1, <4>2 DEF OrderInv, Created
    <3> QED BY <3>1, <3>2
  <2>11. CartInv'
    <3>1. OpenCarts = {}
      BY <1>1, <1>3 DEF CartInv
    <3>2. OpenCarts' \subseteq {o}
      BY <2>3, <3>1 DEF OpenCarts
    <3>3. \A l \in Keys : op'[l].status = "preparing" => l = k
      BY <1>1, <1>3, <2>4 DEF CartInv
    <3> QED BY <2>2, <2>4, <3>2, <3>3 DEF CartInv
  <2> QED BY <2>7, <2>8, <2>9, <2>10, <2>11
<1> QED BY <1>2, <1>3

(* The ready transaction, run by a request or by recovery, perhaps with an *)
(* order of an earlier life of the key.                                    *)
LEMMA MakeReadyInv ==
    ASSUME CheckoutInv, NEW p \in Procs, MakeReady(p)
    PROVE  CheckoutInv'
<1> DEFINE k == proc[p].key
           o == proc[p].order
<1> USE DEF CheckoutInv
<1>1. k \in Keys /\ k # NoKey /\ o \in Orders /\ o # NoOrder /\ proc[p].pc = "ready"
  BY ProcTyped DEF MakeReady, ProcInv, KeySteps, OrderSteps, ProcRecords
<1>2. order[o].checkout = "preparing" /\ op[k].status = "preparing"
  BY DEF MakeReady, CanMakeReady
<1>3. origin[o] \in {k, NoKey} /\ receipt[o] # "none"
  BY <1>1 DEF ProcInv
<1>4. UNCHANGED <<origin, cart, release, receipt>> /\ faults' \in 0..MaxFaults
  BY DEF MakeReady, TypeOK
<1>5. order' = [order EXCEPT ![o].checkout = "ready"]
      /\ op' = [op EXCEPT ![k].status = "completed", ![k].order = o]
  BY DEF MakeReady
<1>6. Continues(p, "activate") \/ Stop(p)
  BY GotoContinues, StepNames DEF MakeReady
<1> HIDE DEF k, o
<1>7. /\ order'[o].status = order[o].status /\ order'[o].checkout = "ready"
      /\ \A x \in Orders \ {o} : order'[x] = order[x]
  BY <1>1, <1>5 DEF TypeOK
<1>8. /\ op'[k].status = "completed" /\ op'[k].order = o
      /\ \A l \in Keys \ {k} : op'[l] = op[l]
  BY <1>1, <1>5 DEF TypeOK
<1>9. Advance
  BY <1>4, <1>7 DEF Advance, Created
<1>10. Moves(p) /\ ProcInv(p)'
  <2>1. "activate" \in PCs /\ "activate" \notin KeySteps /\ "ready" \in OrderSteps
    BY StepNames DEF KeySteps, OrderSteps
  <2> QED BY <1>1, <1>6, <1>9, <2>1, ContinuesInv, StopMoves
<1>11. (\A q \in Procs : ProcInv(q))' /\ proc' \in [Procs -> ProcRecords]
  BY <1>9, <1>10, AllProcInv
<1>12. TypeOK'
  <2>1. op' \in [Keys -> OpRecords]
    <3> DEFINE rec == [op[k] EXCEPT !.status = "completed", !.order = o]
    <3>1. rec \in OpRecords
      BY <1>1, OpTyped DEF OpRecords
    <3>2. op' = [op EXCEPT ![k] = rec]
      BY <1>1, <1>5, OpTyped
    <3> QED BY <3>1, <3>2, OpTyped
  <2>2. order' \in [Orders -> [status : {"none", "pending_payment", "paid", "cancelled"},
                               checkout : {"none", "preparing", "ready", "failed"}]]
    BY <1>1, <1>5 DEF TypeOK
  <2> QED BY <1>4, <1>11, <2>1, <2>2 DEF TypeOK, OpRecords, ProcRecords, PCs
<1>13. ASSUME NEW l \in Keys PROVE OpInv(l)'
  <2>1. Created(o)
    BY <1>1, <1>2 DEF OrderInv, Created
  <2>2. CASE l = k
    BY <1>1, <1>7, <1>8, <2>1, <2>2 DEF OpInv, Created
  <2>3. CASE l # k
    <3>1. op[l].order = NoOrder \/ op[l].order \in Orders
      BY DEF TypeOK
    <3>2. op[l].status # "preparing"
      BY <1>1, <1>2, <2>3 DEF CartInv
    <3> QED BY <1>4, <1>7, <1>8, <2>3, <3>1, <3>2 DEF OpInv, Created
  <2> QED BY <2>2, <2>3
<1>14. ASSUME NEW x \in Orders PROVE OrderInv(x)'
  <2>1. CASE x = o
    BY <1>1, <1>2, <1>3, <1>4, <1>7, <1>8, <2>1 DEF OrderInv, Created
  <2>2. CASE x # o
    <3>1. order[x].checkout = "ready" => origin[x] # k
      BY <1>1, <1>2 DEF OrderInv
    <3>2. origin[x] \in Keys \cup {NoKey}
      BY DEF TypeOK
    <3> QED BY <1>4, <1>7, <1>8, <2>2, <3>1, <3>2 DEF OrderInv, Created
  <2> QED BY <2>1, <2>2
<1>15. CartInv'
  <2>1. OpenCarts' = OpenCarts
    BY <1>4 DEF OpenCarts
  <2> QED BY <1>8, <2>1 DEF CartInv
<1> QED BY <1>11, <1>12, <1>13, <1>14, <1>15

(* abandonCheckout's transaction.                                          *)
LEMMA AbandonInv ==
    ASSUME CheckoutInv, NEW p \in Procs, Abandon(p)
    PROVE  CheckoutInv'
<1> DEFINE o == proc[p].order
<1> USE DEF CheckoutInv
<1>1. o \in Orders /\ proc[p].pc = "abandon"
  BY ProcTyped DEF Abandon, ProcInv, OrderSteps, ProcRecords
<1>2. Continues(p, "dropcart") /\ "dropcart" \in PCs
  BY GotoContinues, StepNames DEF Abandon
<1>3. "abandon" \in KeySteps /\ "abandon" \in OrderSteps
  BY DEF KeySteps, OrderSteps
<1>4. UNCHANGED <<op, origin, cart, receipt>> /\ faults' \in 0..MaxFaults
  BY DEF Abandon, TypeOK
<1>5. CASE order[o].status # "cancelled"
  <2> cancelLocked(o) /\ order[o].status # "none"
    BY <1>1, <1>5, ProcTyped DEF Abandon, ProcInv, Created, OrderSteps, OrderInv
  <2>1. /\ order' \in [Orders -> [status : {"none", "pending_payment", "paid", "cancelled"},
                                  checkout : {"none", "preparing", "ready", "failed"}]]
        /\ release' \in [Orders -> {"none", "pending", "done", "parked"}]
        /\ \A x \in Orders : /\ OrderInv(x)'
                             /\ Created(x) <=> Created(x)'
                             /\ order[x].checkout = "ready" <=> order'[x].checkout = "ready"
    BY <1>1, <1>4, <1>5, CancelEffect
  <2>2. Advance
    BY <1>4, <2>1 DEF Advance
  <2>3. (\A q \in Procs : ProcInv(q))' /\ proc' \in [Procs -> ProcRecords]
    BY <1>1, <1>2, <1>3, <2>2, ContinuesInv, AllProcInv
  <2>4. TypeOK'
    BY <1>4, <2>1, <2>3 DEF TypeOK, ProcRecords, PCs
  <2>5. ASSUME NEW k \in Keys PROVE OpInv(k)'
    <3>1. op[k].order = NoOrder \/ op[k].order \in Orders
      BY DEF TypeOK
    <3> QED BY <1>4, <2>1, <3>1 DEF OpInv, Created
  <2>6. CartInv'
    BY <1>4 DEF CartInv, OpenCarts
  <2> QED BY <2>1, <2>3, <2>4, <2>5, <2>6
<1>6. CASE order[o].status = "cancelled"
  <2>1. UNCHANGED dataVars
    BY <1>4, <1>6 DEF Abandon, dataVars
  <2>2. Advance
    BY <2>1 DEF Advance, Created, dataVars
  <2> QED BY <1>1, <1>2, <1>3, <1>4, <2>1, <2>2, ContinuesInv, OnlyProcs
<1> QED BY <1>5, <1>6

----------------------------------------------------------------------------
LEMMA NextInv == CheckoutInv /\ [Next]_vars => CheckoutInv'
<1> SUFFICES ASSUME CheckoutInv, [Next]_vars PROVE CheckoutInv'
  OBVIOUS
<1>1. ASSUME NEW r \in Requests, RequestStep(r) PROVE CheckoutInv'
  <2>1. r \in Procs
    BY DEF Procs
  <2> QED BY <1>1, <2>1, BeginInv, RunningStepInv, CreateFromPlanInv DEF RequestStep
<1>2. ASSUME NEW w \in Workers, WorkerStep(w) PROVE CheckoutInv'
  <2>1. w \in Procs
    BY DEF Procs
  <2> QED BY <1>2, <2>1, RecoverCheckoutInv, ResolveHeldInv, CartStepInv DEF WorkerStep
<1>3. ASSUME NEW p \in Procs, SharedStep(p) PROVE CheckoutInv'
  BY <1>3, AbandonInv, CartStepInv, FailOperationInv, MakeReadyInv, RunningStepInv DEF SharedStep
<1>4. ASSUME NEW p \in Procs, FaultStep(p) PROVE CheckoutInv'
  BY <1>4, RunningStepInv DEF FaultStep
<1>5. ASSUME NEW o \in Orders, OrderStep(o) PROVE CheckoutInv'
  BY <1>5, ReceiptStepInv, CancelStepInv, CartStepInv, ReleaseStepInv, MarkPaidInv DEF OrderStep
<1>6. ASSUME NEW k \in Keys, KeyExpires(k) PROVE CheckoutInv'
  BY <1>6, KeyExpiresInv
<1>7. CASE UNCHANGED vars
  <2>1. UNCHANGED dataVars /\ UNCHANGED proc /\ faults' \in 0..MaxFaults
    BY <1>7 DEF vars, dataVars, CheckoutInv, TypeOK
  <2> QED BY <2>1, OnlyProcs
<1> QED BY <1>1, <1>2, <1>3, <1>4, <1>5, <1>6, <1>7 DEF Next

(* The inductive invariant holds of every state of the saga.               *)
THEOREM CheckoutInvariant == Spec => []CheckoutInv
<1> QED BY InitInv, NextInv, PTL DEF Spec

(* Operations, orders, carts, effects, receipts and processes stay within  *)
(* their types.                                                            *)
THEOREM CheckoutTypeCorrect == Spec => []TypeOK
<1>1. CheckoutInv => TypeOK
  BY DEF CheckoutInv
<1> QED BY <1>1, CheckoutInvariant, PTL

(* A key that answers "completed" answers with a ready order, and an       *)
(* operation still being prepared has none (MakeReady, RecoverCheckout).   *)
THEOREM CompletedAlwaysReady == Spec => []CompletedIsReady
<1>1. CheckoutInv => CompletedIsReady
  BY DEF CheckoutInv, OpInv, CompletedIsReady
<1> QED BY <1>1, CheckoutInvariant, PTL

(* However requests, retries and recovery of a key interleave, one order   *)
(* of it becomes payable (CreateFromPlan, MakeReady, Begin).               *)
THEOREM OneOrderPerKey == Spec => []OneReadyOrderPerKey
<1>1. CheckoutInv => OneReadyOrderPerKey
  BY DEF CheckoutInv, OrderInv, OneReadyOrderPerKey
<1> QED BY <1>1, CheckoutInvariant, PTL

(* A buyer has at most one order that still claims the cart (Begin,        *)
(* CreateFromPlan).                                                        *)
THEOREM AtMostOneOpenCart == Spec => []OneOpenCart
<1>1. CheckoutInv => OneOpenCart
  <2> SUFFICES ASSUME CheckoutInv PROVE OneOpenCart
    OBVIOUS
  <2>1. CASE OpenCarts = {}
    BY <2>1, FS_EmptySet DEF OneOpenCart
  <2>2. CASE OpenCarts # {}
    <3>1. PICK o \in OpenCarts : OpenCarts = {o}
      BY <2>2 DEF CheckoutInv, CartInv
    <3>2. Cardinality({o}) = 1
      BY FS_Singleton
    <3> QED BY <3>1, <3>2 DEF OneOpenCart
  <2> QED BY <2>1, <2>2
<1> QED BY <1>1, CheckoutInvariant, PTL

(* Stock and orders agree: a cancelled order whose release was answered    *)
(* holds nothing, only an order that had its hold is paid for, and sold    *)
(* stock is not forgotten (MakeReady, RunRelease, MarkPaid).               *)
THEOREM StockAlwaysAccounted == Spec => []StockAccounted
<1>1. CheckoutInv => StockAccounted
  BY DEF CheckoutInv, OrderInv, StockAccounted, NoHoldLeak, PayableHasStock, SoldStockAccounted, Payable
<1> QED BY <1>1, CheckoutInvariant, PTL

(* The order of a finished checkout is never reopened: 'ready', 'failed'   *)
(* and 'cancelled' are kept (SetCheckoutState, cancelLocked, markPaid).    *)
(* 'paid' is kept by every step but one: abandonCheckout, which cancels    *)
(* whatever it finds, and then queues the release.                         *)
THEOREM DecisionsStand == Spec => DecidedStaysDecided
<1> DEFINE Stands(o) == /\ order[o].checkout \in {"ready", "failed"} => order'[o].checkout = order[o].checkout
                        /\ order[o].status = "cancelled" => order'[o].status = "cancelled"
                        /\ order[o].status = "paid" =>
                              \/ order'[o].status = "paid"
                              \/ order'[o].status = "cancelled" /\ Abandoning(o) /\ release'[o] = "pending"
<1>1. ASSUME CheckoutInv, Next PROVE \A o \in Orders : Stands(o)
  <2> USE <1>1 DEF CheckoutInv
  <2>1. CASE order' = order
    BY <2>1
  <2>2. ASSUME NEW x \in Orders, cancelLocked(x), order[x].status = "paid" => Abandoning(x)
        PROVE \A o \in Orders : Stands(o)
    <3>1. /\ order'[x].status = "cancelled"
          /\ order'[x].checkout = IF order[x].checkout = "preparing" THEN "failed" ELSE order[x].checkout
          /\ \A o \in Orders \ {x} : order'[o] = order[o]
      BY <2>2 DEF cancelLocked, TypeOK
    <3>2. order[x].status = "paid" => release'[x] = "pending"
      <4>1. order[x].status = "paid" => release[x] = "none"
        BY DEF OrderInv
      <4> QED BY <2>2, <4>1 DEF cancelLocked, TypeOK
    <3>3. Stands(x)
      BY <2>2, <3>1, <3>2
    <3>4. ASSUME NEW o \in Orders, o # x PROVE Stands(o)
      BY <3>1, <3>4
    <3> QED BY <3>3, <3>4
  <2>3. ASSUME NEW x \in Orders, MarkPaid(x) PROVE \A o \in Orders : Stands(o)
    <3>1. order' = [order EXCEPT ![x] = [order[x] EXCEPT !.status = "paid"]] /\ order[x].status = "pending_payment"
      BY <2>3 DEF MarkPaid, Payable
    <3> QED BY <3>1 DEF TypeOK
  <2>4. ASSUME NEW r \in Procs, CreateFromPlan(r) PROVE \A o \in Orders : Stands(o)
    <3>1. \/ order' = order
          \/ \E x \in Orders : /\ order[x].status = "none" /\ order[x].checkout = "none"
                               /\ order' = [order EXCEPT ![x] = [status |-> "pending_payment", checkout |-> "preparing"]]
      <4>1. \A x \in Orders : order[x].status = "none" => order[x].checkout = "none"
        BY DEF OrderInv
      <4> QED BY <2>4, <4>1 DEF CreateFromPlan
    <3> QED BY <2>1, <3>1 DEF TypeOK
  <2>5. ASSUME NEW p \in Procs, MakeReady(p) PROVE \A o \in Orders : Stands(o)
    <3> DEFINE x == proc[p].order
    <3>1. order[x].checkout = "preparing" /\ order' = [order EXCEPT ![x] = [order[x] EXCEPT !.checkout = "ready"]]
      BY <2>5 DEF MakeReady, CanMakeReady
    <3> HIDE DEF x
    <3> QED BY <3>1 DEF TypeOK
  <2>6. ASSUME NEW p \in Procs, Abandon(p) PROVE \A o \in Orders : Stands(o)
    <3>1. proc[p].order \in Orders /\ Abandoning(proc[p].order)
      BY <2>6, ProcTyped DEF Abandon, Abandoning, ProcInv, OrderSteps, ProcRecords
    <3>2. cancelLocked(proc[p].order) \/ order' = order
      BY <2>6 DEF Abandon
    <3> QED BY <2>1, <2>2, <3>1, <3>2
  <2>7. ASSUME NEW r \in Requests, RequestStep(r) PROVE \A o \in Orders : Stands(o)
    <3>1. CASE CreateFromPlan(r)
      BY <2>4, <3>1 DEF Procs
    <3>2. CASE ~CreateFromPlan(r)
      BY <2>1, <2>7, <3>2 DEF RequestStep, Begin, SettleOpenCartConsumptions, PlanFails, ReserveAnswers, ReserveFails
    <3> QED BY <3>1, <3>2
  <2>8. ASSUME NEW w \in Workers, WorkerStep(w) PROVE \A o \in Orders : Stands(o)
    BY <2>1, <2>8 DEF WorkerStep, RecoverCheckout, ResolveHeld, DropHeld
  <2>9. ASSUME NEW p \in Procs, SharedStep(p) \/ FaultStep(p) PROVE \A o \in Orders : Stands(o)
    BY <2>1, <2>5, <2>6, <2>9 DEF SharedStep, FaultStep, DropCart, FailOperation, ReadyStale, Activate,
       AbandonErrs, ReadyErrs, Crash
  <2>10. ASSUME NEW x \in Orders, OrderStep(x) PROVE \A o \in Orders : Stands(o)
    <3>1. CASE CancelOrder(x) \/ ReservationExpired(x)
      BY <2>2, <3>1 DEF CancelOrder, ReservationExpired, Cancellable
    <3>2. CASE MarkPaid(x)
      BY <2>3, <3>2
    <3>3. CASE ~(CancelOrder(x) \/ ReservationExpired(x) \/ MarkPaid(x))
      BY <2>1, <2>10, <3>3 DEF OrderStep, ReserveArrives, HoldExpires, ConsumeCart, ParkCart, RunRelease,
         RunReleaseUnanswered, ReplayEffect, MarkPaidRollsBack
    <3> QED BY <3>1, <3>2, <3>3
  <2>11. ASSUME NEW k \in Keys, KeyExpires(k) PROVE \A o \in Orders : Stands(o)
    BY <2>1, <2>11 DEF KeyExpires
  <2> QED BY <1>1, <2>7, <2>8, <2>9, <2>10, <2>11 DEF Next
<1>2. CheckoutInv /\ [Next]_vars => [\A o \in Orders : Stands(o)]_vars
  BY <1>1
<1> QED BY <1>2, CheckoutInvariant, PTL DEF Spec, DecidedStaysDecided
=============================================================================
