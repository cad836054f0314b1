---------------------------- MODULE OrdersProofs ----------------------------
(***************************************************************************)
(* Proofs about the order after payment, its packages and their cases, for *)
(* any finite set of vendor orders, any number of attempts, redeliveries   *)
(* and refunds, and about the run that composes them.                      *)
(*                                                                         *)
(* LifecycleInv is the invariant of the order alone: the parent is not     *)
(* ahead of a package that was not refunded, and a completed sale is in    *)
(* the ledger or reported by an effect.  ExceptionInv adds, for one        *)
(* package, what its attempts and the facts in the outbox say of each      *)
(* other (ShipmentInv), what the case of a failed delivery says of the     *)
(* attempts (CaseInv) and the claim that fences handover from cancellation *)
(* (FenceInv).  CaseInv is what makes it inductive: a redelivery exists    *)
(* only after an attempt Order knows to be back and while no refund is     *)
(* asked, so that a later fact of the old attempt cannot start a refund.   *)
(* SumsOK counts refunds as units of money, MCInv joins all of them.       *)
(***************************************************************************)
EXTENDS MCOrders, FiniteSetTheorems, SequenceTheorems, TLAPS

Statuses == {"pending_payment", "paid", "processing", "shipped", "completed", "cancelled", "refunded"}

NotAhead(order, vos) ==
    order \notin {"pending_payment", "cancelled", "refunded"} =>
        \A v \in VendorOrders : vos[v] = "refunded" \/ rankOf(order) <= rankOf(vos[v])

\* One status after another of a vendor order: onwards, or refunded.
MovesOn(from, to) == to = "refunded" \/ (from # "refunded" /\ rankOf(from) <= rankOf(to))

LEMMA Ranks ==
  /\ rankOf("paid") = 1 /\ rankOf("processing") = 2 /\ rankOf("shipped") = 3 /\ rankOf("completed") = 4
  /\ \A s \in Statuses : rankOf(s) \in 1 .. 4
  /\ \A m \in 1 .. 4 : progressRank[m] \in Statuses /\ rankOf(progressRank[m]) = m
<1>1. ToSet(progressRank) = {"paid", "processing", "shipped", "completed"}
  BY DEF ToSet, progressRank
<1>2. progressRank[1] = "paid" /\ progressRank[2] = "processing" /\ progressRank[3] = "shipped" /\ progressRank[4] = "completed"
  BY DEF progressRank
<1>3. rankOf("paid") = 1
  BY <1>1, <1>2 DEF rankOf
<1>4. rankOf("processing") = 2
  BY <1>1, <1>2 DEF rankOf
<1>5. rankOf("shipped") = 3
  BY <1>1, <1>2 DEF rankOf
<1>6. rankOf("completed") = 4
  BY <1>1, <1>2 DEF rankOf
<1>7. \A s \in Statuses \ {"paid", "processing", "shipped", "completed"} : rankOf(s) = 1
  BY <1>1 DEF rankOf
<1>8. \A s \in Statuses : rankOf(s) \in 1 .. 4
  BY <1>3, <1>4, <1>5, <1>6, <1>7 DEF Statuses
<1>9. \A m \in 1 .. 4 : progressRank[m] \in Statuses /\ rankOf(progressRank[m]) = m
  BY <1>2, <1>3, <1>4, <1>5, <1>6 DEF Statuses
<1> QED BY <1>3, <1>4, <1>5, <1>6, <1>8, <1>9

LEMMA WeakestLink ==
  ASSUME NEW vos \in [VendorOrders -> Statuses]
  PROVE  /\ AggregateStatus(vos) \in Statuses
         /\ NotAhead(AggregateStatus(vos), vos)
<1> DEFINE active == {s \in Range(vos) : s # "refunded"}
           ranks == {rankOf(s) : s \in active}
<1>1. CASE active = {}
  BY <1>1 DEF AggregateStatus, NotAhead, Statuses
<1>2. CASE active # {}
  <2>1. active \subseteq Statuses /\ \A v \in VendorOrders : vos[v] = "refunded" \/ vos[v] \in active
    BY DEF Range
  <2>2. ranks \subseteq 1 .. 4 /\ ranks # {}
    BY <1>2, <2>1, Ranks
  <2>3. \E m \in ranks : \A n \in ranks : m <= n
    <3>1. CASE 1 \in ranks BY <2>2, <3>1
    <3>2. CASE 1 \notin ranks /\ 2 \in ranks BY <2>2, <3>2
    <3>3. CASE 1 \notin ranks /\ 2 \notin ranks /\ 3 \in ranks BY <2>2, <3>3
    <3>4. CASE 1 \notin ranks /\ 2 \notin ranks /\ 3 \notin ranks /\ 4 \in ranks BY <2>2, <3>4
    <3> HIDE DEF ranks
    <3>5. PICK m : m \in ranks
      BY <2>2
    <3>6. m = 1 \/ m = 2 \/ m = 3 \/ m = 4
      BY <2>2, <3>5
    <3> QED BY <3>1, <3>2, <3>3, <3>4, <3>5, <3>6
  <2>4. Min(ranks) \in ranks /\ \A n \in ranks : Min(ranks) <= n
    BY <2>3 DEF Min
  <2>5. AggregateStatus(vos) = progressRank[Min(ranks)]
    BY <1>2 DEF AggregateStatus
  <2>6. rankOf(AggregateStatus(vos)) = Min(ranks) /\ AggregateStatus(vos) \in Statuses
    BY <2>2, <2>4, <2>5, Ranks
  <2>7. \A v \in VendorOrders : vos[v] = "refunded" \/ rankOf(vos[v]) \in ranks
    BY <2>1
  <2> QED BY <2>4, <2>6, <2>7 DEF NotAhead
<1> QED BY <1>1, <1>2

LEMMA Recomputed ==
  ASSUME NEW order \in Statuses, NEW old \in [VendorOrders -> Statuses], NotAhead(order, old),
         NEW vos \in [VendorOrders -> Statuses], \A v \in VendorOrders : MovesOn(old[v], vos[v])
  PROVE  /\ recomputeOrderStatus(order, vos) \in Statuses
         /\ NotAhead(recomputeOrderStatus(order, vos), vos)
<1>1. NotAhead(order, vos)
  <2> SUFFICES ASSUME order \notin {"pending_payment", "cancelled", "refunded"}, NEW v \in VendorOrders, vos[v] # "refunded"
               PROVE  rankOf(order) <= rankOf(vos[v])
    BY DEF NotAhead
  <2>1. old[v] # "refunded" /\ rankOf(old[v]) <= rankOf(vos[v])
    BY DEF MovesOn
  <2>2. rankOf(order) <= rankOf(old[v])
    BY <2>1 DEF NotAhead
  <2>3. rankOf(order) \in 1 .. 4 /\ rankOf(old[v]) \in 1 .. 4 /\ rankOf(vos[v]) \in 1 .. 4
    BY Ranks
  <2> QED BY <2>1, <2>2, <2>3
<1> QED BY <1>1, WeakestLink DEF recomputeOrderStatus

\* A statuses record of order and vendor orders where the order is not ahead.
Good(st) == /\ st.order \in Statuses /\ st.vos \in [VendorOrders -> Statuses]
            /\ NotAhead(st.order, st.vos)

LEMMA StepAdvances ==
  ASSUME NEW st, Good(st), NEW v \in VendorOrders, NEW s \in Statuses, MovesOn(st.vos[v], s)
  PROVE  /\ Good(advanceVendorOrder(st, v, s))
         /\ advanceVendorOrder(st, v, s).vos[v] = s
<1> DEFINE vos == [st.vos EXCEPT ![v] = s]
<1>1. vos \in [VendorOrders -> Statuses] /\ vos[v] = s
  BY DEF Good
<1>2. \A w \in VendorOrders : MovesOn(st.vos[w], vos[w])
  <2> SUFFICES ASSUME NEW w \in VendorOrders, w # v PROVE MovesOn(st.vos[w], st.vos[w])
    BY <1>1 DEF Good
  <2> st.vos[w] \in Statuses /\ rankOf(st.vos[w]) \in 1 .. 4
    BY Ranks DEF Good
  <2> QED BY DEF MovesOn
<1>3. recomputeOrderStatus(st.order, vos) \in Statuses /\ NotAhead(recomputeOrderStatus(st.order, vos), vos)
  BY <1>1, <1>2, Recomputed DEF Good
<1> QED BY <1>1, <1>3 DEF Good, advanceVendorOrder

Now == [order |-> orderStatus, vos |-> voStatus]

LEMMA AdvancedUnfolds ==
  ASSUME NEW v, NEW steps, NEW n \in 0 .. 3, Len(steps) = n
  PROVE  LET a1 == advanceVendorOrder(Now, v, steps[1])
             a2 == advanceVendorOrder(a1, v, steps[2])
             a3 == advanceVendorOrder(a2, v, steps[3])
         IN Advanced(v, steps) = IF n = 0 THEN Now ELSE IF n = 1 THEN a1 ELSE IF n = 2 THEN a2 ELSE a3
<1> DEFINE Step(a, i) == advanceVendorOrder(a, v, steps[i])
           a1 == Step(Now, 1)
           a2 == Step(a1, 2)
           a3 == Step(a2, 3)
           F == [i \in 0 .. n |-> IF i = 0 THEN Now ELSE IF i = 1 THEN a1 ELSE IF i = 2 THEN a2 ELSE a3]
           Unfolds(f) == f = [i \in 0 .. Len(steps) |-> IF i = 0 THEN Now ELSE Step(f[i - 1], i)]
           st == CHOOSE f : Unfolds(f)
<1>1. Advanced(v, steps) = st[Len(steps)]
  BY DEF Advanced, Now
<1> HIDE DEF Step
<1>2. Unfolds(F)
  <2>1. F = [i \in 0 .. n |-> IF i = 0 THEN Now ELSE Step(F[i - 1], i)]
    <3>1. \A i \in 0 .. n : F[i] = IF i = 0 THEN Now ELSE Step(F[i - 1], i)
      <4> SUFFICES ASSUME NEW i \in 0 .. n PROVE F[i] = IF i = 0 THEN Now ELSE Step(F[i - 1], i)
        OBVIOUS
      <4>1. CASE i = 0 BY <4>1
      <4>2. CASE i = 1 BY <4>2
      <4>3. CASE i = 2 BY <4>3
      <4>4. CASE i = 3 BY <4>4
      <4> QED BY <4>1, <4>2, <4>3, <4>4
    <3> HIDE DEF F
    <3>2. F = [i \in 0 .. n |-> F[i]]
      BY DEF F
    <3> QED BY <3>1, <3>2
  <2> QED BY <2>1
<1> HIDE DEF F
<1>3. Unfolds(st)
  BY <1>2
<1> HIDE DEF st
<1>4. \A i \in 0 .. n : st[i] = IF i = 0 THEN Now ELSE Step(st[i - 1], i)
  BY <1>3
<1>5. st[0] = Now /\ (n >= 1 => st[1] = a1) /\ (n >= 2 => st[2] = a2) /\ (n >= 3 => st[3] = a3)
  <2>1. st[0] = Now
    BY <1>4
  <2>2. n >= 1 => st[1] = a1
    BY <1>4, <2>1
  <2>3. n >= 2 => st[2] = a2
    BY <1>4, <2>2
  <2>4. n >= 3 => st[3] = a3
    BY <1>4, <2>3
  <2> QED BY <2>1, <2>2, <2>3, <2>4
<1> QED BY <1>1, <1>5 DEF Step

\* The steps lead from the status of v, each onwards.
Path(v, steps) ==
    /\ Len(steps) \in 0 .. 3
    /\ \A i \in 1 .. Len(steps) : steps[i] \in Statuses /\ MovesOn(IF i = 1 THEN voStatus[v] ELSE steps[i - 1], steps[i])

LifecycleOK == orderStatus \in Statuses /\ voStatus \in [VendorOrders -> Statuses] /\ NotAhead(orderStatus, voStatus)

LEMMA AdvancedIsGood ==
  ASSUME LifecycleOK, NEW v \in VendorOrders, NEW steps, Path(v, steps)
  PROVE  Good(Advanced(v, steps))
<1> DEFINE n == Len(steps)
           a1 == advanceVendorOrder(Now, v, steps[1])
           a2 == advanceVendorOrder(a1, v, steps[2])
           a3 == advanceVendorOrder(a2, v, steps[3])
<1>0. Good(Now) /\ Now.vos[v] = voStatus[v]
  BY DEF LifecycleOK, Good, Now
<1>1. n >= 1 => Good(a1) /\ a1.vos[v] = steps[1]
  <2> SUFFICES ASSUME n >= 1 PROVE Good(a1) /\ a1.vos[v] = steps[1]
    OBVIOUS
  <2>1. steps[1] \in Statuses /\ MovesOn(Now.vos[v], steps[1])
    BY <1>0 DEF Path
  <2> QED BY <1>0, <2>1, StepAdvances
<1> HIDE DEF a1
<1>2. n >= 2 => Good(a2) /\ a2.vos[v] = steps[2]
  <2> SUFFICES ASSUME n >= 2 PROVE Good(a2) /\ a2.vos[v] = steps[2]
    OBVIOUS
  <2>1. steps[2] \in Statuses /\ MovesOn(a1.vos[v], steps[2])
    BY <1>1 DEF Path
  <2>2. n \in 0 .. 3
    BY DEF Path
  <2> QED BY <1>1, <2>1, <2>2, StepAdvances
<1> HIDE DEF a2
<1>3. n >= 3 => Good(a3) /\ a3.vos[v] = steps[3]
  <2> SUFFICES ASSUME n >= 3 PROVE Good(a3) /\ a3.vos[v] = steps[3]
    OBVIOUS
  <2>1. steps[3] \in Statuses /\ MovesOn(a2.vos[v], steps[3])
    BY <1>2 DEF Path
  <2>2. n \in 0 .. 3
    BY DEF Path
  <2> QED BY <1>2, <2>1, <2>2, StepAdvances
<1> HIDE DEF a3
<1>4. n \in 0 .. 3
  BY DEF Path
<1>5. Advanced(v, steps) = IF n = 0 THEN Now ELSE IF n = 1 THEN a1 ELSE IF n = 2 THEN a2 ELSE a3
  BY <1>4, AdvancedUnfolds DEF a1, a2, a3
<1> HIDE DEF n
<1> QED BY <1>0, <1>1, <1>2, <1>3, <1>4, <1>5

\* What the sequences of shipmentPaths, and the shop's, are.
LEMMA PathsLeadOnwards ==
  ASSUME LifecycleOK, NEW v \in VendorOrders
  PROVE  /\ CanTransition(voStatus[v], "processing") => Path(v, <<"processing">>)
         /\ \A type \in DOMAIN shipmentPaths : EventAccepted(v, type) => Path(v, shipmentPaths[type][voStatus[v]])
<1> DEFINE s == voStatus[v]
<1> s \in Statuses
  BY DEF LifecycleOK
<1>1. CanTransition(s, "processing") => Path(v, <<"processing">>)
  BY Ranks DEF Path, MovesOn, Statuses, CanTransition, validTransitions
<1>2. DOMAIN shipmentPaths = {"shipped", "delivered"}
  BY DEF shipmentPaths
<1>3. EventAccepted(v, "shipped") => Path(v, shipmentPaths["shipped"][s])
  BY Ranks DEF Path, MovesOn, Statuses, EventAccepted, shipmentPaths
<1>4. EventAccepted(v, "delivered") => Path(v, shipmentPaths["delivered"][s])
  BY Ranks DEF Path, MovesOn, Statuses, EventAccepted, shipmentPaths
<1> QED BY <1>1, <1>2, <1>3, <1>4

-----------------------------------------------------------------------------
(* Effects.                                                                *)

Settles(v) == Effect("settle_vendor_order", v)

IsEffects(es) == es = [pending |-> es.pending, done |-> es.done, parked |-> es.parked]

\* What es says of the settlement reports is what effects says.
SameReports(es) ==
    /\ IsEffects(es)
    /\ \A v \in VendorOrders : /\ Settles(v) \in es.pending <=> Settles(v) \in effects.pending
                               /\ Settles(v) \in es.done <=> Settles(v) \in effects.done
                               /\ Settles(v) \in es.parked <=> Settles(v) \in effects.parked

LedgerOK ==
    /\ IsEffects(effects) /\ completed \subseteq VendorOrders
    /\ \A v \in VendorOrders : Settles(v) \in effects.pending \cup effects.done \cup effects.parked => v \in completed
    /\ SalesReachLedger

LEMMA EnqueueOther ==
  ASSUME NEW es, SameReports(es), NEW new, \A v \in VendorOrders : Settles(v) \notin new
  PROVE  SameReports(Enqueue(es, new))
<1>1. PICK q : q = Enqueue(es, new)
  OBVIOUS
<1>2. q = [pending |-> es.pending \cup (new \ (es.done \cup es.parked)), done |-> es.done, parked |-> es.parked]
  BY <1>1 DEF SameReports, IsEffects, Enqueue
<1>3. SameReports(q)
  BY <1>2 DEF SameReports, IsEffects
<1> QED BY <1>1, <1>3

LEMMA MarkDoneOther ==
  ASSUME NEW es, SameReports(es), NEW e, \A v \in VendorOrders : Settles(v) # e
  PROVE  SameReports(MarkDone(es, e))
<1>1. PICK q : q = MarkDone(es, e)
  OBVIOUS
<1>2. q = [pending |-> es.pending \ {e}, done |-> es.done \cup {e}, parked |-> es.parked]
  BY <1>1 DEF SameReports, IsEffects, MarkDone
<1>3. SameReports(q)
  BY <1>2 DEF SameReports, IsEffects
<1> QED BY <1>1, <1>3

\* The kinds of effect that are no settlement report.
LEMMA OtherKinds ==
  ASSUME NEW v, NEW x
  PROVE  /\ Settles(v) # Effect("create_shipment", x) /\ Settles(v) # Effect("cancel_shipment", x)
         /\ Settles(v) # Effect("release_inventory", x) /\ Settles(v) # Effect("request_refund", x)
         /\ Settles(v) # Effect("stop_fulfillment", x) /\ Settles(v) # Effect("intercept_shipment", x)
         /\ Settles(v) # Effect("recover_cancelled_stock", x) /\ Settles(v) # Effect("recover_delivery_stock", x)
         /\ Settles(v) # Effect("create_replacement_attempt", x)
  BY DEF Settles, Effect

LEMMA SameReportsNow ==
  ASSUME LedgerOK PROVE SameReports(effects)
  BY DEF LedgerOK, SameReports

LEMMA LedgerKept ==
  ASSUME LedgerOK, SameReports(effects'), UNCHANGED <<completed, settled>>
  PROVE  LedgerOK'
<1>1. IsEffects(effects')
  BY DEF SameReports
<1>2. \A v \in VendorOrders : Settles(v) \in effects'.pending \cup effects'.done \cup effects'.parked => v \in completed'
  BY DEF LedgerOK, SameReports
<1>3. SalesReachLedger'
  BY DEF LedgerOK, SameReports, SalesReachLedger, Settles, Effect
<1> QED BY <1>1, <1>2, <1>3 DEF LedgerOK, IsEffects, Settles, Effect

LEMMA LifecycleKept ==
  ASSUME LifecycleOK, UNCHANGED <<orderStatus, voStatus>>
  PROVE  LifecycleOK'
  BY DEF LifecycleOK, NotAhead

LifecycleInv == LifecycleOK /\ LedgerOK

LEMMA NothingMoves ==
  ASSUME LifecycleInv, UNCHANGED <<orderStatus, voStatus, completed, settled, effects>>
  PROVE  LifecycleInv'
<1>1. SameReports(effects')
  BY SameReportsNow DEF LifecycleInv
<1> QED BY <1>1, LedgerKept, LifecycleKept DEF LifecycleInv

\* Only effects move, and no settlement report.
LEMMA EffectsMove ==
  ASSUME LifecycleInv, SameReports(effects'), UNCHANGED <<orderStatus, voStatus, completed, settled>>
  PROVE  LifecycleInv'
  BY LedgerKept, LifecycleKept DEF LifecycleInv

-----------------------------------------------------------------------------
(* Statuses.                                                               *)

LEMMA StepsApply ==
  ASSUME LifecycleInv, NEW v \in VendorOrders, NEW steps, Path(v, steps), ApplySteps(v, steps), settled' = settled
  PROVE  LifecycleInv'
<1>1. LifecycleOK'
  <2>1. Good(Advanced(v, steps))
    BY AdvancedIsGood DEF LifecycleInv
  <2>2. orderStatus' = Advanced(v, steps).order /\ voStatus' = Advanced(v, steps).vos
    BY DEF ApplySteps
  <2> QED BY <2>1, <2>2 DEF Good, LifecycleOK, NotAhead
<1>2. CASE "completed" \notin ToSet(steps)
  BY <1>1, <1>2, SameReportsNow, LedgerKept DEF ApplySteps, LifecycleInv
<1>3. CASE "completed" \in ToSet(steps)
  <2>1. effects' = [pending |-> effects.pending \cup ({Settles(v)} \ (effects.done \cup effects.parked)),
                    done |-> effects.done, parked |-> effects.parked]
    BY <1>3 DEF ApplySteps, LifecycleInv, LedgerOK, IsEffects, Enqueue, Settles
  <2>2. completed' = completed \cup {v}
    BY <1>3 DEF ApplySteps
  <2>3. \A w \in VendorOrders : Settles(w) = Settles(v) => w = v
    BY DEF Settles, Effect
  <2>4. \A w \in VendorOrders : Settles(w) \in effects'.pending \cup effects'.done \cup effects'.parked => w \in completed'
    BY <2>1, <2>2, <2>3 DEF LifecycleInv, LedgerOK
  <2>5. \A w \in completed : w \in settled \/ Settles(w) \in effects.pending \cup effects.parked
    BY DEF LifecycleInv, LedgerOK, SalesReachLedger, Settles
  <2>6. Settles(v) \in effects.done => v \in completed
    BY DEF LifecycleInv, LedgerOK
  <2>7. \A w \in completed' : w \in settled' \/ Settles(w) \in effects'.pending \cup effects'.parked
    BY <2>1, <2>2, <2>5, <2>6
  <2>8. IsEffects(effects')
    BY <2>1 DEF IsEffects
  <2>9. LedgerOK'
    BY <2>2, <2>4, <2>7, <2>8 DEF LifecycleInv, LedgerOK, SalesReachLedger, Settles, Effect, IsEffects
  <2> QED BY <1>1, <2>9 DEF LifecycleInv
<1> QED BY <1>2, <1>3

LEMMA ShopAdvances ==
  ASSUME LifecycleInv, NEW v \in VendorOrders, UpdateVendorOrderStatus(v)
  PROVE  LifecycleInv'
<1>1. Path(v, <<"processing">>)
  BY PathsLeadOnwards DEF UpdateVendorOrderStatus, LifecycleInv
<1> QED BY <1>1, StepsApply DEF UpdateVendorOrderStatus

LEMMA ShipmentAdvances ==
  ASSUME LifecycleInv, NEW v \in VendorOrders, NEW type \in DOMAIN shipmentPaths, ApplyShipmentEvent(v, type), settled' = settled
  PROVE  LifecycleInv'
<1>1. Path(v, shipmentPaths[type][voStatus[v]])
  BY PathsLeadOnwards DEF ApplyShipmentEvent, LifecycleInv
<1> QED BY <1>1, StepsApply DEF ApplyShipmentEvent

LEMMA OutcomeApplies ==
  ASSUME LifecycleInv, NEW r, NEW outcome, NEW es, SameReports(es), ApplyRefundOutcome(r, outcome, es),
         UNCHANGED <<completed, settled>>
  PROVE  LifecycleInv'
<1>1. CASE outcome # "succeeded"
  <2>1. effects' = es /\ UNCHANGED <<orderStatus, voStatus>>
    BY <1>1 DEF ApplyRefundOutcome
  <2> QED BY <2>1, EffectsMove
<1>2. CASE outcome = "succeeded"
  <2> DEFINE v == refunds[r].vo
  <2>1. /\ voStatus' = voStatus \/ voStatus' = [voStatus EXCEPT ![v] = "refunded"]
        /\ orderStatus' = recomputeOrderStatus(orderStatus, voStatus')
        /\ effects' = es \/ effects' = Enqueue(es, {Effect("cancel_shipment", v)})
    <3>1. recordRefunded(r, es)
      BY <1>2 DEF ApplyRefundOutcome
    <3>2. voStatus' = voStatus \/ voStatus' = [voStatus EXCEPT ![v] = "refunded"]
      BY <3>1 DEF recordRefunded
    <3>3. orderStatus' = recomputeOrderStatus(orderStatus, voStatus')
      BY <3>1 DEF recordRefunded
    <3>4. effects' = es \/ effects' = Enqueue(es, {Effect("cancel_shipment", v)})
      BY <3>1 DEF recordRefunded
    <3> QED BY <3>2, <3>3, <3>4
  <2> HIDE DEF v
  <2>2. voStatus' \in [VendorOrders -> Statuses] /\ \A w \in VendorOrders : MovesOn(voStatus[w], voStatus'[w])
    <3>1. voStatus \in [VendorOrders -> Statuses] /\ "refunded" \in Statuses
      BY DEF LifecycleInv, LifecycleOK, Statuses
    <3>2. \A w \in VendorOrders : voStatus'[w] = "refunded" \/ voStatus'[w] = voStatus[w]
      BY <2>1, <3>1
    <3>3. \A w \in VendorOrders : MovesOn(voStatus[w], voStatus[w]) /\ MovesOn(voStatus[w], "refunded")
      BY <3>1, Ranks DEF MovesOn
    <3>4. voStatus' \in [VendorOrders -> Statuses]
      BY <2>1, <3>1
    <3> QED BY <3>2, <3>3, <3>4
  <2>3. LifecycleOK'
    BY <2>1, <2>2, Recomputed DEF LifecycleInv, LifecycleOK, NotAhead
  <2>4. SameReports(effects')
    BY <2>1, OtherKinds, EnqueueOther
  <2> QED BY <2>3, <2>4, LedgerKept DEF LifecycleInv
<1> QED BY <1>1, <1>2
-----------------------------------------------------------------------------
(* Transactions of Order, each of which the compositions use.              *)

LEMMA PaymentArrives ==
  ASSUME LifecycleInv, applyPayment \/ cancelLocked
  PROVE  LifecycleInv'
<1>1. CASE applyPayment
  <2>1. voStatus' \in [VendorOrders -> Statuses] /\ orderStatus' = "paid"
    BY <1>1 DEF applyPayment, LifecycleInv, LifecycleOK, Statuses
  <2>2. NotAhead(orderStatus', voStatus')
    BY <2>1, Ranks DEF NotAhead
  <2>3. SameReports(effects')
    BY <1>1, SameReportsNow, EnqueueOther, OtherKinds DEF applyPayment, LifecycleInv
  <2> QED BY <1>1, <2>1, <2>2, <2>3, LedgerKept DEF applyPayment, LifecycleInv, LifecycleOK, Statuses, NotAhead
<1>2. CASE cancelLocked
  <2>1. voStatus' \in [VendorOrders -> Statuses] /\ orderStatus' = "cancelled"
    BY <1>2 DEF cancelLocked, LifecycleInv, LifecycleOK, Statuses
  <2>2. LifecycleOK'
    BY <2>1 DEF LifecycleOK, Statuses, NotAhead
  <2>3. SameReports(effects')
    BY <1>2, SameReportsNow, EnqueueOther, OtherKinds DEF cancelLocked, LifecycleInv
  <2> QED BY <1>2, <2>2, <2>3, LedgerKept DEF cancelLocked, LifecycleInv
<1> QED BY <1>1, <1>2

LEMMA RefundCreated ==
  ASSUME LifecycleInv, NEW v, NEW amount, NEW reason, NEW es, SameReports(es), createRefund(v, amount, reason, es),
         UNCHANGED <<orderStatus, voStatus, completed, settled>>
  PROVE  LifecycleInv'
<1>1. SameReports(effects')
  BY EnqueueOther, OtherKinds DEF createRefund
<1> QED BY <1>1, EffectsMove

LEMMA AdminAsks ==
  ASSUME LifecycleInv, NEW v, NEW amount, AdminRequestRefund(v, amount)
  PROVE  LifecycleInv'
BY RefundCreated, SameReportsNow DEF AdminRequestRefund, LifecycleInv

LEMMA RunsOf ==
  ASSUME LifecycleInv, NEW e, \A v \in VendorOrders : Settles(v) # e, NEW es \in AfterRun(e)
  PROVE  SameReports(es)
BY SameReportsNow, MarkDoneOther DEF AfterRun, LifecycleInv

LEMMA RefundMoves ==
  ASSUME LifecycleInv, NEW r,
         SubmitRefund(r) \/ RecordSubmitted(r) \/ RejectRefund(r) \/ RefundOutcomeArrives(r) \/ PaymentDecides(r)
  PROVE  LifecycleInv'
<1>0. \A v \in VendorOrders : Settles(v) # Effect("request_refund", r)
  BY OtherKinds
<1>1. CASE SubmitRefund(r) \/ PaymentDecides(r)
  BY <1>1, NothingMoves DEF SubmitRefund, PaymentDecides
<1>2. CASE RecordSubmitted(r)
  BY <1>0, <1>2, RunsOf, EffectsMove DEF RecordSubmitted
<1>3. CASE RejectRefund(r)
  <2>1. PICK es \in AfterRun(Effect("request_refund", r)) :
           \/ ApplyRefundOutcome(r, "rejected", es)
           \/ effects' = es /\ UNCHANGED <<refunds, orderStatus, voStatus, refunded>>
    BY <1>3 DEF RejectRefund
  <2>2. SameReports(es)
    BY <1>0, RunsOf
  <2>3. UNCHANGED <<completed, settled>>
    BY <1>3 DEF RejectRefund
  <2> QED BY <2>1, <2>2, <2>3, OutcomeApplies, EffectsMove
<1>4. CASE RefundOutcomeArrives(r)
  BY <1>4, OutcomeApplies, SameReportsNow DEF RefundOutcomeArrives, LifecycleInv
<1> QED BY <1>1, <1>2, <1>3, <1>4

\* The report reaches the ledger: the vendor order is completed.
LEMMA ReportArrives ==
  ASSUME LifecycleInv, NEW v \in VendorOrders, settleVendorOrder(v)
  PROVE  LifecycleInv'
<1>1. v \in completed /\ settled' = settled \cup {v} /\ completed' = completed
  BY DEF settleVendorOrder, LifecycleInv, LedgerOK, Settles
<1>2. effects' = [pending |-> effects.pending \ {Settles(v)}, done |-> effects.done \cup {Settles(v)}, parked |-> effects.parked]
  BY DEF settleVendorOrder, LifecycleInv, LedgerOK, IsEffects, MarkDone, Settles
<1>3. \A w \in VendorOrders : Settles(w) = Settles(v) => w = v
  BY DEF Settles, Effect
<1>4. \A w \in completed : w \in settled \/ Settles(w) \in effects.pending \cup effects.parked
  BY DEF LifecycleInv, LedgerOK, SalesReachLedger, Settles
<1>5. \A w \in completed' : w \in settled' \/ Settles(w) \in effects'.pending \cup effects'.parked
  BY <1>1, <1>2, <1>3, <1>4 DEF LifecycleInv, LedgerOK
<1>6. \A w \in VendorOrders : Settles(w) \in effects'.pending \cup effects'.done \cup effects'.parked => w \in completed'
  BY <1>1, <1>2, <1>3 DEF LifecycleInv, LedgerOK
<1>7. IsEffects(effects') /\ completed' \subseteq VendorOrders
  BY <1>1, <1>2 DEF IsEffects, LifecycleInv, LedgerOK
<1>8. LedgerOK'
  BY <1>5, <1>6, <1>7 DEF LedgerOK, SalesReachLedger, Settles, Effect, IsEffects
<1> QED BY <1>8, LifecycleKept DEF settleVendorOrder, LifecycleInv

LEMMA ReportWaits ==
  ASSUME LifecycleInv, NEW v \in VendorOrders, ParkSettlement(v) \/ ReplayEffect(v)
  PROVE  LifecycleInv'
<1>1. /\ effects'.pending \cup effects'.parked = effects.pending \cup effects.parked
      /\ effects'.done = effects.done /\ IsEffects(effects')
  <2>1. effects = [pending |-> effects.pending, done |-> effects.done, parked |-> effects.parked]
    BY DEF LifecycleInv, LedgerOK, IsEffects
  <2>2. CASE ParkSettlement(v)
    <3>1. effects' = [pending |-> effects.pending \ {Settles(v)}, done |-> effects.done, parked |-> effects.parked \cup {Settles(v)}]
      BY <2>1, <2>2 DEF ParkSettlement, RecordFailure, Settles
    <3>2. Settles(v) \in effects.pending
      BY <2>2 DEF ParkSettlement, RecordFailure, Settles
    <3> QED BY <3>1, <3>2 DEF IsEffects
  <2>3. CASE ReplayEffect(v)
    <3>1. effects' = [pending |-> effects.pending \cup {Settles(v)}, done |-> effects.done, parked |-> effects.parked \ {Settles(v)}]
      BY <2>1, <2>3 DEF ReplayEffect, Replay, Settles
    <3>2. Settles(v) \in effects.parked
      BY <2>3 DEF ReplayEffect, Replay, Settles
    <3> QED BY <3>1, <3>2 DEF IsEffects
  <2> QED BY <2>2, <2>3
<1>2. UNCHANGED <<orderStatus, voStatus, completed, settled>>
  BY DEF ParkSettlement, ReplayEffect
<1>3. SalesReachLedger'
  BY <1>1, <1>2 DEF SalesReachLedger, LifecycleInv, LedgerOK, Effect
<1>4. \A w \in VendorOrders : Settles(w) \in effects'.pending \cup effects'.done \cup effects'.parked => w \in completed'
  BY <1>1, <1>2 DEF LifecycleInv, LedgerOK
<1>5. LedgerOK'
  BY <1>1, <1>2, <1>3, <1>4 DEF LedgerOK, LifecycleInv, IsEffects, Settles, Effect
<1> QED BY <1>2, <1>5, LifecycleKept DEF LifecycleInv

-----------------------------------------------------------------------------
(* The order with its packages.                                            *)

LEMMA OrdersStart ==
  ASSUME OrdersInit PROVE LifecycleInv
BY DEF OrdersInit, LifecycleInit, LifecycleInv, LifecycleOK, LedgerOK, NotAhead, Statuses, IsEffects, SalesReachLedger

LEMMA PackagesStep ==
  ASSUME LifecycleInv, NEW v \in VendorOrders,
         createPackage(v) \/ cancelPackage(v) \/ PackageMoves(v) \/ ShipmentEventArrives(v)
  PROVE  LifecycleInv'
<1>1. CASE createPackage(v)
  BY <1>1, RunsOf, OtherKinds, EffectsMove DEF createPackage
<1>2. CASE cancelPackage(v)
  BY <1>2, MarkDoneOther, SameReportsNow, OtherKinds, EffectsMove DEF cancelPackage, LifecycleInv
<1>3. CASE PackageMoves(v)
  BY <1>3, NothingMoves DEF PackageMoves
<1>4. CASE ShipmentEventArrives(v)
  <2>1. PICK type \in {"shipped", "delivered"} : ApplyShipmentEvent(v, type)
    BY <1>4 DEF ShipmentEventArrives
  <2>2. settled' = settled
    BY <1>4 DEF ShipmentEventArrives
  <2>3. DOMAIN shipmentPaths = {"shipped", "delivered"}
    BY DEF shipmentPaths
  <2> QED BY <2>1, <2>2, <2>3, ShipmentAdvances
<1> QED BY <1>1, <1>2, <1>3, <1>4

LEMMA OrdersStep ==
  ASSUME LifecycleInv, [OrdersNext]_ordersVars
  PROVE  LifecycleInv'
<1>1. CASE applyPayment \/ cancelLocked
  BY <1>1, PaymentArrives
<1>2. CASE releaseInventory
  BY <1>2, MarkDoneOther, SameReportsNow, OtherKinds, EffectsMove DEF releaseInventory, LifecycleInv
<1>3. ASSUME NEW v \in VendorOrders, UpdateVendorOrderStatus(v) PROVE LifecycleInv'
  BY <1>3, ShopAdvances
<1>4. ASSUME NEW v \in VendorOrders, settleVendorOrder(v) \/ ParkSettlement(v) \/ ReplayEffect(v) PROVE LifecycleInv'
  BY <1>4, ReportArrives, ReportWaits
<1>5. ASSUME NEW v \in VendorOrders, NEW amount \in 1 .. Total, AdminRequestRefund(v, amount) PROVE LifecycleInv'
  BY <1>5, AdminAsks
<1>6. ASSUME NEW r \in RefundIds,
             SubmitRefund(r) \/ RecordSubmitted(r) \/ RejectRefund(r) \/ RefundOutcomeArrives(r) \/ PaymentDecides(r)
      PROVE  LifecycleInv'
  BY <1>6, RefundMoves
<1>7. ASSUME NEW v \in VendorOrders, createPackage(v) \/ cancelPackage(v) \/ PackageMoves(v) \/ ShipmentEventArrives(v)
      PROVE  LifecycleInv'
  BY <1>7, PackagesStep
<1>8. CASE UNCHANGED ordersVars
  BY <1>8, NothingMoves DEF ordersVars, lifecycleVars
<1> QED BY <1>1, <1>2, <1>3, <1>4, <1>5, <1>6, <1>7, <1>8 DEF OrdersNext, OrderOnly

LEMMA LifecycleDecides ==
  ASSUME LifecycleInv PROVE PackagesDecideOrder
BY DEF LifecycleInv, LifecycleOK, LedgerOK, NotAhead, PackagesDecideOrder, ParentNeverAhead

(* The parent order is never ahead of the slowest package that was not     *)
(* refunded, and every completed sale is in the settlement ledger or on    *)
(* its way there, whatever is refunded, cancelled or delivered twice       *)
(* meanwhile (recomputeOrderStatus, settleVendorOrder).                    *)
THEOREM PackagesAlwaysDecide == OrdersSpec => []PackagesDecideOrder
<1>1. LifecycleInv /\ [OrdersNext]_ordersVars => LifecycleInv'
  BY OrdersStep
<1> QED BY <1>1, OrdersStart, LifecycleDecides, PTL DEF OrdersSpec
-----------------------------------------------------------------------------
(* What the refunds of an order add up to.                                 *)

Reasons == {"dispute", "return", "cancellation", "delivery_exception"}
RefundStatuses == {"requested", "submitted", "succeeded", "failed", "rejected"}
RefundRecords == [vo : VendorOrders, amount : Nat, reason : Reasons, status : RefundStatuses]

\* The units of refund i, counted when it is of vs and in one of statuses.
Counts(rs, i, vs, statuses) == rs[i].vo \in vs /\ rs[i].status \in statuses
UnitsOf(rs, i) == {i} \X (1 .. rs[i].amount)

LEMMA CoveredIsFinite ==
  ASSUME NEW S, IsFiniteSet(S), NEW T, NEW f \in Surjection(S, T)
  PROVE  IsFiniteSet(T)
BY FS_Surjection

\* What a disjoint part of n more elements adds to a finite set.
LEMMA PartAdds ==
  ASSUME NEW S, IsFiniteSet(S), NEW T, IsFiniteSet(T), S \cap T = {}
  PROVE  Cardinality(S \cup T) = Cardinality(S) + Cardinality(T)
<1>1. Cardinality(S \cup T) = Cardinality(S) + Cardinality(T) - Cardinality({})
  BY FS_Union
<1>2. Cardinality({}) = 0 /\ Cardinality(S) \in Nat /\ Cardinality(T) \in Nat
  BY FS_EmptySet, FS_CardinalityType
<1> QED BY <1>1, <1>2

LEMMA UnitsAreFinite ==
  ASSUME NEW rs \in Seq(RefundRecords), NEW vs, NEW statuses
  PROVE  /\ IsFiniteSet(RefundUnits(rs, vs, statuses))
         /\ Cardinality(RefundUnits(rs, vs, statuses)) \in Nat
         /\ \A i \in 1 .. Len(rs) :
               IsFiniteSet(UnitsOf(rs, i)) /\ Cardinality(UnitsOf(rs, i)) = rs[i].amount /\ rs[i].amount \in Nat
<1> DEFINE J == {j \in 1 .. Len(rs) : Counts(rs, j, vs, statuses)}
           f == [j \in J |-> UnitsOf(rs, j)]
           T == {UnitsOf(rs, j) : j \in J}
<1>1. IsFiniteSet(J)
  <2>1. IsFiniteSet(1 .. Len(rs))
    BY FS_Interval
  <2> QED BY <2>1, FS_Subset
<1>2. IsFiniteSet(T)
  <2>1. PICK g : g = f
    OBVIOUS
  <2>2. g \in Surjection(J, T)
    BY <2>1 DEF Surjection
  <2> HIDE DEF J, T, f
  <2>3. \A S, U : IsFiniteSet(S) /\ g \in Surjection(S, U) => IsFiniteSet(U)
    BY CoveredIsFinite
  <2> QED BY <1>1, <2>2, <2>3
<1>3. ASSUME NEW i \in 1 .. Len(rs)
      PROVE  IsFiniteSet(UnitsOf(rs, i)) /\ Cardinality(UnitsOf(rs, i)) = rs[i].amount /\ rs[i].amount \in Nat
  <2>0. rs[i] \in RefundRecords
    OBVIOUS
  <2>1. PICK a \in Nat : a = rs[i].amount
    BY <2>0 DEF RefundRecords
  <2>2. IsFiniteSet(1 .. a) /\ Cardinality(1 .. a) = a
    BY FS_Interval
  <2>3. IsFiniteSet({i}) /\ Cardinality({i}) = 1
    BY FS_Singleton
  <2>4. IsFiniteSet({i} \X (1 .. a)) /\ Cardinality({i} \X (1 .. a)) = 1 * a
    BY <2>2, <2>3, FS_Product
  <2> QED BY <2>1, <2>4 DEF UnitsOf
<1>4. IsFiniteSet(UNION T)
  BY <1>2, <1>3, FS_UNION
<1>5. RefundUnits(rs, vs, statuses) = UNION T
  BY DEF RefundUnits, UnitsOf, Counts
<1> QED BY <1>3, <1>4, <1>5, FS_CardinalityType

\* What the refunds before and after add up to, when only refund i is new or
\* moves: they share what the others add up to.
LEMMA OneRefundMoves ==
  ASSUME NEW rs \in Seq(RefundRecords), NEW rt \in Seq(RefundRecords), NEW vs, NEW statuses,
         Len(rs) <= Len(rt), NEW i \in 1 .. Len(rt), \A j \in 1 .. Len(rt) : j # i => j \in 1 .. Len(rs) /\ rt[j] = rs[j]
  PROVE  \E rest \in Nat :
            /\ Cardinality(RefundUnits(rs, vs, statuses)) =
                  IF i \in 1 .. Len(rs) /\ Counts(rs, i, vs, statuses) THEN rest + rs[i].amount ELSE rest
            /\ Cardinality(RefundUnits(rt, vs, statuses)) = IF Counts(rt, i, vs, statuses) THEN rest + rt[i].amount ELSE rest
<1> DEFINE others == UNION {UnitsOf(rt, j) : j \in {j \in 1 .. Len(rt) : j # i /\ Counts(rt, j, vs, statuses)}}
           all(q) == RefundUnits(q, vs, statuses)
<1>0. IsFiniteSet(all(rs)) /\ IsFiniteSet(all(rt))
  BY UnitsAreFinite
<1>1. all(rt) = IF Counts(rt, i, vs, statuses) THEN others \cup UnitsOf(rt, i) ELSE others
  BY DEF RefundUnits, Counts, UnitsOf
<1>2. all(rs) = IF i \in 1 .. Len(rs) /\ Counts(rs, i, vs, statuses) THEN others \cup UnitsOf(rs, i) ELSE others
  <2>1. \A j : j \in 1 .. Len(rs) <=> (j = i /\ i \in 1 .. Len(rs)) \/ (j # i /\ j \in 1 .. Len(rt))
    OBVIOUS
  <2>2. \A j \in 1 .. Len(rt) : j # i => (Counts(rs, j, vs, statuses) <=> Counts(rt, j, vs, statuses)) /\ UnitsOf(rs, j) = UnitsOf(rt, j)
    BY DEF Counts, UnitsOf
  <2>3. all(rs) = UNION {UnitsOf(rs, j) : j \in {j \in 1 .. Len(rs) : Counts(rs, j, vs, statuses)}}
    BY DEF RefundUnits, Counts, UnitsOf
  <2>4. \A u : u \in all(rs) <=> \E j \in 1 .. Len(rs) : Counts(rs, j, vs, statuses) /\ u \in UnitsOf(rs, j)
    BY <2>3
  <2>5. \A u : u \in others <=> \E j \in 1 .. Len(rt) : j # i /\ Counts(rt, j, vs, statuses) /\ u \in UnitsOf(rt, j)
    OBVIOUS
  <2> HIDE DEF others, all
  <2>6. \A u : u \in all(rs) <=> u \in others \/ (i \in 1 .. Len(rs) /\ Counts(rs, i, vs, statuses) /\ u \in UnitsOf(rs, i))
    BY <2>1, <2>2, <2>4, <2>5
  <2> QED BY <2>6
<1>3. others \cap UnitsOf(rt, i) = {} /\ others \cap UnitsOf(rs, i) = {}
  BY DEF UnitsOf
<1>4. others \subseteq all(rt)
  BY <1>1
<1> HIDE DEF others, all
<1>5. IsFiniteSet(others) /\ Cardinality(others) \in Nat
  BY <1>0, <1>4, FS_Subset, FS_CardinalityType
<1>6. Cardinality(all(rt)) = IF Counts(rt, i, vs, statuses) THEN Cardinality(others) + rt[i].amount ELSE Cardinality(others)
  <2>1. IsFiniteSet(UnitsOf(rt, i)) /\ Cardinality(UnitsOf(rt, i)) = rt[i].amount /\ rt[i].amount \in Nat
    BY UnitsAreFinite
  <2>2. Cardinality(others \cup UnitsOf(rt, i)) = Cardinality(others) + rt[i].amount
    BY <1>3, <1>5, <2>1, PartAdds
  <2> QED BY <1>1, <2>2
<1>7. Cardinality(all(rs)) = IF i \in 1 .. Len(rs) /\ Counts(rs, i, vs, statuses) THEN Cardinality(others) + rs[i].amount ELSE Cardinality(others)
  <2>1. CASE i \in 1 .. Len(rs) /\ Counts(rs, i, vs, statuses)
    <3>1. IsFiniteSet(UnitsOf(rs, i)) /\ Cardinality(UnitsOf(rs, i)) = rs[i].amount /\ rs[i].amount \in Nat
      BY <2>1, UnitsAreFinite
    <3>2. Cardinality(others \cup UnitsOf(rs, i)) = Cardinality(others) + rs[i].amount
      BY <1>3, <1>5, <3>1, PartAdds
    <3> QED BY <1>2, <2>1, <3>2
  <2>2. CASE ~(i \in 1 .. Len(rs) /\ Counts(rs, i, vs, statuses))
    BY <1>2, <2>2
  <2> QED BY <2>1, <2>2
<1> QED BY <1>5, <1>6, <1>7 DEF all


SumsOK ==
    /\ refunds \in Seq(RefundRecords) /\ refunded \in [VendorOrders -> Nat]
    /\ RefundsWithinTotal

LEMMA AmountIsNat ==
  ASSUME SumsOK, NEW vs, NEW statuses PROVE Amount(vs, statuses) \in Nat
BY UnitsAreFinite DEF SumsOK, Amount

LEMMA RefundableIsLeft ==
  ASSUME SumsOK, NEW v \in VendorOrders
  PROVE  refundableFor(v) \in Nat /\ refundableFor(v) <= Total - OpenTotals({v})
<1> DEFINE ofVendor == Total - OpenTotals({v})
           ofOrder  == appliedCapture - OpenTotals(VendorOrders)
<1>1. ofVendor \in Nat
  <2>1. OpenTotals({v}) \in Nat
    BY AmountIsNat DEF OpenTotals
  <2>2. OpenTotals({v}) <= Total
    BY DEF SumsOK, RefundsWithinTotal, OpenTotals, OpenStatuses
  <2> QED BY <2>1, <2>2, OrderAssumption
<1>2. ofOrder \in Int
  <2>1. Cardinality(VendorOrders) \in Nat
    BY OrderAssumption, FS_CardinalityType
  <2>2. OpenTotals(VendorOrders) \in Nat
    BY AmountIsNat DEF OpenTotals
  <2>3. Total \in Nat
    BY OrderAssumption
  <2>4. appliedCapture \in Nat
    BY <2>1, <2>3 DEF appliedCapture
  <2> QED BY <2>2, <2>4
<1>3. refundableFor(v) = Max({0, Min({ofVendor, ofOrder})})
  BY DEF refundableFor
<1> HIDE DEF ofVendor, ofOrder
<1>4. Min({ofVendor, ofOrder}) \in Int /\ Min({ofVendor, ofOrder}) <= ofVendor
  <2>1. \E m \in {ofVendor, ofOrder} : \A n \in {ofVendor, ofOrder} : m <= n
    BY <1>1, <1>2
  <2>2. Min({ofVendor, ofOrder}) \in {ofVendor, ofOrder} /\ \A n \in {ofVendor, ofOrder} : Min({ofVendor, ofOrder}) <= n
    BY <2>1 DEF Min
  <2> QED BY <1>1, <1>2, <2>2
<1>5. PICK least \in Int : least = Min({ofVendor, ofOrder}) /\ least <= ofVendor
  BY <1>4
<1>6. Max({0, least}) \in {0, least} /\ \A n \in {0, least} : Max({0, least}) >= n
  <2>1. \E m \in {0, least} : \A n \in {0, least} : m >= n
    OBVIOUS
  <2> QED BY <2>1 DEF Max
<1>7. Max({0, least}) \in Nat /\ Max({0, least}) <= ofVendor
  BY <1>1, <1>5, <1>6
<1> QED BY <1>3, <1>5, <1>7 DEF ofVendor

\* What a step may do to the refunds and to refunded_amount.
Asked(v, amount, reason) ==
    /\ amount <= refundableFor(v) /\ refunded' = refunded
    /\ refunds' = Append(refunds, [vo |-> v, amount |-> amount, reason |-> reason, status |-> "requested"])

Answered(r, outcome) ==
    /\ CanApplyOutcome(refunds[r].status, outcome)
    /\ refunds' = [refunds EXCEPT ![r].status = outcome]
    /\ refunded' = IF outcome = "succeeded"
                   THEN [refunded EXCEPT ![refunds[r].vo] = refunded[refunds[r].vo] + refunds[r].amount] ELSE refunded

RefundStep ==
    \/ UNCHANGED <<refunds, refunded>>
    \/ \E v \in VendorOrders, amount \in Nat, reason \in Reasons : Asked(v, amount, reason)
    \/ \E r \in RefundIds : /\ refunds[r].status = "requested" /\ refunded' = refunded
                            /\ refunds' = [refunds EXCEPT ![r].status = "submitted"]
    \/ \E r \in RefundIds, outcome \in {"succeeded", "failed", "rejected"} : Answered(r, outcome)

LEMMA AskedKeeps ==
  ASSUME SumsOK, NEW v \in VendorOrders, NEW amount \in Nat, NEW reason \in Reasons, Asked(v, amount, reason)
  PROVE  SumsOK'
<1>1. PICK rec : rec = [vo |-> v, amount |-> amount, reason |-> reason, status |-> "requested"] /\ refunds' = Append(refunds, rec)
  BY DEF Asked
<1>2. rec \in RefundRecords /\ rec.vo = v /\ rec.amount = amount /\ rec.status = "requested"
  BY <1>1 DEF RefundRecords, RefundStatuses
<1>3. refunds \in Seq(RefundRecords) /\ Len(refunds) \in Nat
  BY DEF SumsOK
<1> DEFINE n == Len(refunds) + 1
<1>4. /\ refunds' \in Seq(RefundRecords) /\ Len(refunds') = n /\ refunds'[n] = rec
      /\ \A j \in 1 .. Len(refunds) : refunds'[j] = refunds[j]
  BY <1>1, <1>2, <1>3, AppendProperties
<1>5. ASSUME NEW w \in VendorOrders, NEW statuses
      PROVE  Amount({w}, statuses)' = IF w = v /\ "requested" \in statuses THEN Amount({w}, statuses) + amount ELSE Amount({w}, statuses)
  <2>1. n \in 1 .. Len(refunds') /\ n \notin 1 .. Len(refunds) /\ Len(refunds) <= Len(refunds')
        /\ \A j \in 1 .. Len(refunds') : j # n => j \in 1 .. Len(refunds) /\ refunds'[j] = refunds[j]
    BY <1>3, <1>4
  <2> HIDE DEF n
  <2>2. PICK rest \in Nat :
            /\ Cardinality(RefundUnits(refunds, {w}, statuses)) =
                  IF n \in 1 .. Len(refunds) /\ Counts(refunds, n, {w}, statuses) THEN rest + refunds[n].amount ELSE rest
            /\ Cardinality(RefundUnits(refunds', {w}, statuses)) = IF Counts(refunds', n, {w}, statuses) THEN rest + refunds'[n].amount ELSE rest
    BY <1>3, <1>4, <2>1, OneRefundMoves
  <2>3. Counts(refunds', n, {w}, statuses) <=> w = v /\ "requested" \in statuses
    BY <1>2, <1>4 DEF Counts
  <2> QED BY <1>2, <1>4, <2>1, <2>2, <2>3 DEF Amount
<1>6. amount + Amount({v}, OpenStatuses) <= Total
  <2>1. Amount({v}, OpenStatuses) \in Nat
    BY AmountIsNat
  <2>2. amount <= refundableFor(v)
    BY DEF Asked
  <2>3. refundableFor(v) \in Nat /\ refundableFor(v) <= Total - Amount({v}, OpenStatuses)
    BY RefundableIsLeft DEF OpenTotals
  <2>4. Total \in Nat
    BY OrderAssumption
  <2> QED BY <2>1, <2>2, <2>3, <2>4
<1>7. ASSUME NEW w \in VendorOrders
      PROVE  Amount({w}, OpenStatuses)' <= Total /\ refunded'[w] = Amount({w}, {"succeeded"})'
  <2>1. Amount({w}, OpenStatuses) <= Total /\ refunded[w] = Amount({w}, {"succeeded"})
    BY DEF SumsOK, RefundsWithinTotal, OpenStatuses
  <2>2. Amount({w}, OpenStatuses) \in Nat
    BY AmountIsNat
  <2>3. Amount({w}, {"succeeded"})' = Amount({w}, {"succeeded"})
    BY <1>5
  <2>4. Amount({w}, OpenStatuses)' = IF w = v /\ "requested" \in OpenStatuses THEN Amount({w}, OpenStatuses) + amount ELSE Amount({w}, OpenStatuses)
    <3>1. PICK open : open = OpenStatuses
      OBVIOUS
    <3>2. Amount({w}, open)' = IF w = v /\ "requested" \in open THEN Amount({w}, open) + amount ELSE Amount({w}, open)
      BY <1>5
    <3> QED BY <3>1, <3>2 DEF Amount, OpenStatuses
  <2>5. refunded' = refunded
    BY DEF Asked
  <2> QED BY <1>6, <2>1, <2>2, <2>3, <2>4, <2>5
<1>8. RefundsWithinTotal'
  BY <1>7 DEF RefundsWithinTotal, OpenStatuses
<1>9. refunded' \in [VendorOrders -> Nat]
  BY DEF SumsOK, Asked
<1> QED BY <1>4, <1>8, <1>9 DEF SumsOK

\* What the refunds of vendor order w add up to before and after one of
\* amount n, of vendor order v, moves between two statuses.
Shifts(w, statuses, v, n, from, to) ==
    \E rest \in Nat : /\ Amount({w}, statuses) = IF w = v /\ from \in statuses THEN rest + n ELSE rest
                      /\ Amount({w}, statuses)' = IF w = v /\ to \in statuses THEN rest + n ELSE rest

LEMMA StatusMoves ==
  ASSUME SumsOK, NEW r \in RefundIds, NEW to \in RefundStatuses, refunds' = [refunds EXCEPT ![r].status = to]
  PROVE  /\ refunds' \in Seq(RefundRecords) /\ refunds[r] \in RefundRecords
         /\ \A w \in VendorOrders : \A statuses : Shifts(w, statuses, refunds[r].vo, refunds[r].amount, refunds[r].status, to)
<1> DEFINE old == refunds[r]
           rec == [old EXCEPT !.status = to]
<1>1. refunds' = [refunds EXCEPT ![r] = rec]
  OBVIOUS
<1>2. refunds \in Seq(RefundRecords) /\ old \in RefundRecords /\ r \in 1 .. Len(refunds)
  BY DEF SumsOK, RefundIds
<1> HIDE DEF old
<1>3. rec \in RefundRecords /\ rec.status = to /\ rec.vo = old.vo /\ rec.amount = old.amount /\ old.amount \in Nat
  BY <1>2 DEF RefundRecords
<1> HIDE DEF rec
<1>4. refunds' \in Seq(RefundRecords) /\ Len(refunds') = Len(refunds) /\ refunds'[r] = rec
      /\ \A j \in 1 .. Len(refunds) : j # r => refunds'[j] = refunds[j]
  BY <1>1, <1>2, <1>3, ExceptSeq
<1>5. ASSUME NEW w \in VendorOrders, NEW statuses
      PROVE  Shifts(w, statuses, old.vo, old.amount, old.status, to)
  <2>1. PICK rs, rt : rs = refunds /\ rt = refunds'
    OBVIOUS
  <2>2. rs \in Seq(RefundRecords) /\ rt \in Seq(RefundRecords) /\ Len(rs) <= Len(rt) /\ r \in 1 .. Len(rt) /\ r \in 1 .. Len(rs)
        /\ \A j \in 1 .. Len(rt) : j # r => j \in 1 .. Len(rs) /\ rt[j] = rs[j]
    BY <1>2, <1>4, <2>1
  <2>3. PICK rest \in Nat :
            /\ Cardinality(RefundUnits(rs, {w}, statuses)) =
                  IF r \in 1 .. Len(rs) /\ Counts(rs, r, {w}, statuses) THEN rest + rs[r].amount ELSE rest
            /\ Cardinality(RefundUnits(rt, {w}, statuses)) = IF Counts(rt, r, {w}, statuses) THEN rest + rt[r].amount ELSE rest
    BY <2>2, OneRefundMoves
  <2>4. /\ Counts(rs, r, {w}, statuses) <=> w = old.vo /\ old.status \in statuses
        /\ Counts(rt, r, {w}, statuses) <=> w = old.vo /\ to \in statuses
        /\ rs[r].amount = old.amount /\ rt[r].amount = old.amount
    BY <1>3, <1>4, <2>1 DEF Counts, old
  <2> QED BY <2>1, <2>2, <2>3, <2>4 DEF Amount, Shifts
<1> QED BY <1>2, <1>4, <1>5 DEF old

LEMMA RefundStepKeeps ==
  ASSUME SumsOK, RefundStep PROVE SumsOK'
<1>1. CASE UNCHANGED <<refunds, refunded>>
  BY <1>1 DEF SumsOK, RefundsWithinTotal, Amount
<1>2. ASSUME NEW v \in VendorOrders, NEW amount \in Nat, NEW reason \in Reasons, Asked(v, amount, reason) PROVE SumsOK'
  BY <1>2, AskedKeeps
<1>3. ASSUME NEW r \in RefundIds, NEW to \in {"submitted", "succeeded", "failed", "rejected"},
             refunds' = [refunds EXCEPT ![r].status = to], refunds[r].status \in {"requested", "submitted"},
             refunded' = IF to = "succeeded"
                         THEN [refunded EXCEPT ![refunds[r].vo] = refunded[refunds[r].vo] + refunds[r].amount] ELSE refunded
      PROVE  SumsOK'
  <2>1. PICK v, amount, from : v = refunds[r].vo /\ amount = refunds[r].amount /\ from = refunds[r].status
    OBVIOUS
  <2>2. refunds' \in Seq(RefundRecords) /\ refunds[r] \in RefundRecords
    BY <1>3, StatusMoves DEF RefundStatuses
  <2>3. v \in VendorOrders /\ amount \in Nat
    BY <2>1, <2>2 DEF RefundRecords
  <2>4. \A w \in VendorOrders : \A statuses : Shifts(w, statuses, v, amount, from, to)
    BY <1>3, <2>1, StatusMoves DEF RefundStatuses
  <2>5. \A w \in VendorOrders : refunded[w] \in Nat /\ refunded'[w] = IF to = "succeeded" /\ w = v THEN refunded[w] + amount ELSE refunded[w]
    BY <1>3, <2>1, <2>3 DEF SumsOK
  <2>6. ASSUME NEW w \in VendorOrders
        PROVE  Amount({w}, {"requested", "submitted", "succeeded"})' <= Total /\ refunded'[w] = Amount({w}, {"succeeded"})'
    <3>1. Amount({w}, {"requested", "submitted", "succeeded"}) <= Total /\ refunded[w] = Amount({w}, {"succeeded"})
      BY DEF SumsOK, RefundsWithinTotal
    <3>2. PICK a \in Nat :
             /\ Amount({w}, {"requested", "submitted", "succeeded"}) = IF w = v /\ from \in {"requested", "submitted", "succeeded"} THEN a + amount ELSE a
             /\ Amount({w}, {"requested", "submitted", "succeeded"})' = IF w = v /\ to \in {"requested", "submitted", "succeeded"} THEN a + amount ELSE a
      BY <2>4 DEF Shifts
    <3>3. PICK b \in Nat :
             /\ Amount({w}, {"succeeded"}) = IF w = v /\ from \in {"succeeded"} THEN b + amount ELSE b
             /\ Amount({w}, {"succeeded"})' = IF w = v /\ to \in {"succeeded"} THEN b + amount ELSE b
      BY <2>4 DEF Shifts
    <3>4. from \in {"requested", "submitted"} /\ Total \in Nat
      BY <1>3, <2>1, OrderAssumption
    <3>5. Amount({w}, {"requested", "submitted", "succeeded"})' <= Total
      BY <2>3, <3>1, <3>2, <3>4
    <3>6. refunded'[w] = Amount({w}, {"succeeded"})'
      BY <2>3, <2>5, <3>1, <3>3, <3>4
    <3> QED BY <3>5, <3>6
  <2>7. refunded' \in [VendorOrders -> Nat]
    <3>1. refunded \in [VendorOrders -> Nat]
      BY DEF SumsOK
    <3>2. PICK paid \in Nat : paid = refunded[v] + amount
      BY <2>3, <3>1
    <3> QED BY <1>3, <2>1, <2>3, <3>1, <3>2
  <2>8. RefundsWithinTotal'
    BY <2>6 DEF RefundsWithinTotal
  <2> QED BY <2>2, <2>7, <2>8 DEF SumsOK
<1>4. ASSUME NEW r \in RefundIds, refunds[r].status = "requested", refunded' = refunded,
             refunds' = [refunds EXCEPT ![r].status = "submitted"]
      PROVE  SumsOK'
  BY <1>3, <1>4
<1>5. ASSUME NEW r \in RefundIds, NEW outcome \in {"succeeded", "failed", "rejected"}, Answered(r, outcome) PROVE SumsOK'
  <2>1. refunds[r].status \in {"requested", "submitted"}
    BY <1>5 DEF Answered, CanApplyOutcome
  <2> QED BY <1>3, <1>5, <2>1 DEF Answered
<1> QED BY <1>1, <1>2, <1>4, <1>5 DEF RefundStep

-----------------------------------------------------------------------------
(* The transactions of Order, as refunds see them.                         *)

LEMMA RefundAsked ==
  ASSUME NEW v \in VendorOrders, NEW amount \in Nat, NEW reason \in Reasons, NEW es,
         createRefund(v, amount, reason, es), amount <= refundableFor(v), refunded' = refunded
  PROVE  RefundStep
BY DEF createRefund, RefundStep, Asked

LEMMA OutcomeStep ==
  ASSUME NEW r \in RefundIds, NEW outcome \in {"succeeded", "failed", "rejected"}, NEW es, ApplyRefundOutcome(r, outcome, es)
  PROVE  RefundStep
<1>1. CanApplyOutcome(refunds[r].status, outcome) /\ refunds' = [refunds EXCEPT ![r].status = outcome]
  BY DEF ApplyRefundOutcome
<1>2. CASE outcome = "succeeded"
  <2>1. recordRefunded(r, es)
    BY <1>2 DEF ApplyRefundOutcome
  <2>2. refunded' = [refunded EXCEPT ![refunds[r].vo] = refunded[refunds[r].vo] + refunds[r].amount]
    BY <2>1 DEF recordRefunded
  <2>3. Answered(r, outcome)
    BY <1>1, <1>2, <2>2 DEF Answered
  <2> QED BY <2>3 DEF RefundStep
<1>3. CASE outcome # "succeeded"
  <2>1. refunded' = refunded
    BY <1>3 DEF ApplyRefundOutcome
  <2>2. Answered(r, outcome)
    BY <1>1, <1>3, <2>1 DEF Answered
  <2> QED BY <2>2 DEF RefundStep
<1> QED BY <1>2, <1>3

LEMMA RefundMovesStep ==
  ASSUME NEW r \in RefundIds,
         SubmitRefund(r) \/ RecordSubmitted(r) \/ RejectRefund(r) \/ RefundOutcomeArrives(r) \/ PaymentDecides(r)
  PROVE  RefundStep
<1>1. CASE SubmitRefund(r) \/ PaymentDecides(r)
  BY <1>1 DEF SubmitRefund, PaymentDecides, RefundStep
<1>2. CASE RecordSubmitted(r)
  BY <1>2 DEF RecordSubmitted, RefundStep
<1>3. CASE RejectRefund(r)
  <2>1. PICK es : \/ ApplyRefundOutcome(r, "rejected", es)
                  \/ UNCHANGED <<refunds, refunded>>
    BY <1>3 DEF RejectRefund
  <2>2. CASE UNCHANGED <<refunds, refunded>>
    BY <2>2 DEF RefundStep
  <2> QED BY <2>1, <2>2, OutcomeStep
<1>4. CASE RefundOutcomeArrives(r)
  BY <1>4, OutcomeStep DEF RefundOutcomeArrives
<1> QED BY <1>1, <1>2, <1>3, <1>4

LEMMA OrdersRefundStep ==
  ASSUME [OrdersNext]_ordersVars PROVE RefundStep
<1>1. CASE applyPayment \/ cancelLocked \/ releaseInventory
  BY <1>1 DEF applyPayment, cancelLocked, releaseInventory, moneyVars, RefundStep
<1>2. ASSUME NEW v \in VendorOrders,
             UpdateVendorOrderStatus(v) \/ settleVendorOrder(v) \/ ParkSettlement(v) \/ ReplayEffect(v)
      PROVE  RefundStep
  BY <1>2 DEF UpdateVendorOrderStatus, settleVendorOrder, ParkSettlement, ReplayEffect, moneyVars, RefundStep
<1>3. ASSUME NEW v \in VendorOrders, NEW amount \in 1 .. Total, AdminRequestRefund(v, amount) PROVE RefundStep
  BY <1>3, RefundAsked DEF AdminRequestRefund, Reasons
<1>4. ASSUME NEW r \in RefundIds,
             SubmitRefund(r) \/ RecordSubmitted(r) \/ RejectRefund(r) \/ RefundOutcomeArrives(r) \/ PaymentDecides(r)
      PROVE  RefundStep
  BY <1>4, RefundMovesStep
<1>5. ASSUME NEW v \in VendorOrders, createPackage(v) \/ cancelPackage(v) \/ PackageMoves(v) \/ ShipmentEventArrives(v)
      PROVE  RefundStep
  BY <1>5 DEF createPackage, cancelPackage, PackageMoves, ShipmentEventArrives, moneyVars, RefundStep
<1>6. CASE UNCHANGED ordersVars
  BY <1>6 DEF ordersVars, lifecycleVars, RefundStep
<1> QED BY <1>1, <1>2, <1>3, <1>4, <1>5, <1>6 DEF OrdersNext, OrderOnly

LEMMA NothingRefunded ==
  ASSUME refunds = <<>>, refunded = [v \in VendorOrders |-> 0] PROVE SumsOK
<1>1. \A vs, statuses : RefundUnits(refunds, vs, statuses) = {}
  BY DEF RefundUnits
<1>2. \A vs, statuses : Amount(vs, statuses) = 0
  BY <1>1, FS_EmptySet DEF Amount
<1>3. RefundsWithinTotal
  BY <1>2, OrderAssumption DEF RefundsWithinTotal
<1> QED BY <1>3 DEF SumsOK

(* However admins' requests, Payment's answers and lost answers interleave,*)
(* what the open and paid refunds of a vendor order add up to stays within *)
(* what its buyer paid, and refunded_amount is what Payment confirmed      *)
(* (refundableFor under the order lock, applyRefundOutcome).               *)
THEOREM RefundsAlwaysWithinTotal == OrdersSpec => []RefundsWithinTotal
<1>1. OrdersInit => SumsOK
  BY NothingRefunded DEF OrdersInit, LifecycleInit
<1>2. SumsOK /\ [OrdersNext]_ordersVars => SumsOK'
  BY OrdersRefundStep, RefundStepKeeps
<1>3. SumsOK => RefundsWithinTotal
  BY DEF SumsOK
<1> QED BY <1>1, <1>2, <1>3, PTL DEF OrdersSpec
-----------------------------------------------------------------------------
(* The attempts of a package and what Order was told of them.              *)

WithCarrier == {"shipped", "interception_requested", "delivered", "returned", "lost"}

AttemptRecords == [status : DOMAIN shipmentTransitions, handed : BOOLEAN, failed : Nat, operation : {"none", "cancellation"}]

Facts == {"shipped", "delivered", "exception_attempts_exhausted", "exception_returned", "exception_lost"}

FactRecords == [n : Nat, type : Facts, state : {"pending", "delivered", "review"}]

\* What a fact in the outbox says of its attempt for good.
FactIsTrue(e) ==
    /\ e.n \in Attempts
    /\ e.type = "exception_returned" => attempts[e.n].status \in {"returned", "cancelled"}
    /\ e.type = "exception_lost" => attempts[e.n].status = "lost"
    /\ attempts[e.n].handed

ShipmentInv ==
    /\ attempts \in Seq(AttemptRecords) /\ outbox \subseteq FactRecords /\ handing \subseteq Attempts
    /\ \A n \in Attempts : attempts[n].status \in WithCarrier => attempts[n].handed
    /\ \A e \in outbox : FactIsTrue(e)
    /\ \A e1, e2 \in outbox : e1.n = e2.n /\ e1.type = e2.type => e1 = e2

\* What no step does to the attempts: one comes, none goes.
ShipmentKept ==
    /\ Len(attempts') = Len(attempts)
    /\ \A n \in Attempts : attempts[n].handed => attempts'[n].handed
    /\ \A e \in outbox : e.state = "delivered" => e \in outbox'

-----------------------------------------------------------------------------
(* The case of a failed delivery.                                          *)

CaseStatuses == {"none", "resolved"} \cup DOMAIN deliveryExceptionTransitions

\* Order knows that attempt n came back.
ReturnIsKnown(n) == \E e \in outbox : e.n = n /\ e.type = "exception_returned" /\ e.state = "delivered"

KnownReturns == {n \in Attempts : ReturnIsKnown(n)}

\* The package was sent again after the attempt case d is about.
Redelivered(d) == Len(attempts) > d.current

IsCase(d) ==
    d = [status |-> d.status, shipment |-> d.shipment, current |-> d.current, outcome |-> d.outcome,
         resolution |-> d.resolution, count |-> d.count, replacement |-> d.replacement, refund |-> d.refund,
         recovery |-> d.recovery, late |-> d.late, hold |-> d.hold]

NoCaseYet(d, answer) == d.refund = 0 /\ d.replacement = 0 /\ Len(attempts) <= 1 /\ answer = "none"

\* What a case d says of the package, with Shipment's answer to its
\* redelivery and the attempts known to be back.
SomeCase(d, answer, back) ==
    /\ d.current \in Attempts /\ attempts[d.current].handed
    /\ Len(attempts) <= d.current + 1
    /\ d.replacement \in {0, d.current} \/ (d.replacement = d.current + 1 /\ Redelivered(d))
    /\ d.refund # 0 => d.resolution = "refund"
    /\ d.outcome = "returned" => d.current \in back
    /\ d.status \in {"awaiting_buyer", "redelivery_pending"} => d.refund = 0 /\ d.current \in back
    /\ answer = "created" => Redelivered(d) /\ d.replacement = 0
    /\ answer = "refused" => ~Redelivered(d)
    /\ Redelivered(d) => d.current \in back /\ d.refund = 0 /\ d.status # "awaiting_buyer"
    /\ Redelivered(d) /\ CarrierFinal(d) => d.status \in {"redelivery_pending", "resolved"}

CaseOf(d, answer, back) ==
    /\ IsCase(d) /\ d.status \in CaseStatuses /\ answer \in {"none", "created", "refused"}
    /\ IF d.status = "none" THEN NoCaseYet(d, answer) ELSE SomeCase(d, answer, back)

CaseInv == CaseOf(dx, replacing, KnownReturns)

-----------------------------------------------------------------------------
(* The fence between a cancellation and the handover.                      *)

SomeHanded == \E n \in Attempts : attempts[n].handed

CancelIsRecord ==
    cancel = [id |-> cancel.id, status |-> cancel.status, restock |-> cancel.restock, stop |-> cancel.stop,
              refund |-> cancel.refund, intercept |-> cancel.intercept]

FenceInv ==
    /\ CancelIsRecord /\ claim \in Nat
    /\ CancellationOpen => claim = 0
    /\ handing # {} => claim # 0 \/ SomeHanded

ExceptionInv == LifecycleInv /\ ShipmentInv /\ CaseInv /\ FenceInv
-----------------------------------------------------------------------------
(* Shipment's transactions.                                                *)

LEMMA OneAttemptMoves ==
  ASSUME ShipmentInv, NEW n \in Attempts, NEW r \in AttemptRecords, attempts' = [attempts EXCEPT ![n] = r],
         attempts[n].handed => r.handed, r.status \in WithCarrier => r.handed,
         attempts[n].status \in {"cancelled", "returned", "lost"} => r.status = attempts[n].status,
         NEW types \in SUBSET Facts, outbox' = OutboxEnqueue(n, types),
         "exception_returned" \in types => r.status \in {"returned", "cancelled"},
         "exception_lost" \in types => r.status = "lost",
         types # {} => r.handed,
         handing' \subseteq handing \cup {n}
  PROVE  ShipmentInv' /\ ShipmentKept
<1> DEFINE new == {[n |-> n, type |-> t, state |-> "pending"] : t \in {t \in types : \A e \in outbox : e.n # n \/ e.type # t}}
<1>1. /\ attempts \in Seq(AttemptRecords) /\ attempts' \in Seq(AttemptRecords) /\ Len(attempts') = Len(attempts)
      /\ Attempts' = Attempts /\ Len(attempts) \in Nat /\ n \in Nat
      /\ attempts'[n] = r /\ \A m \in Attempts \ {n} : attempts'[m] = attempts[m]
  BY DEF ShipmentInv, Attempts
<1>2. outbox' = outbox \cup new
  BY DEF OutboxEnqueue
<1>3. \A e \in new : /\ e \in FactRecords /\ e.n = n /\ e.type \in types /\ e.state = "pending"
                     /\ \A o \in outbox : o.n # n \/ o.type # e.type
  BY <1>1 DEF FactRecords
<1>3a. \A e1, e2 \in new : e1.type = e2.type => e1 = e2
  OBVIOUS
<1> HIDE DEF new
<1>4. \A m \in Attempts' : attempts'[m].status \in WithCarrier => attempts'[m].handed
  BY <1>1 DEF ShipmentInv
<1>5. \A m \in Attempts : attempts[m].handed => attempts'[m].handed
  BY <1>1
<1>6. \A e \in outbox : FactIsTrue(e)'
  <2> SUFFICES ASSUME NEW e \in outbox PROVE FactIsTrue(e)'
    OBVIOUS
  <2>1. FactIsTrue(e)
    BY DEF ShipmentInv
  <2> QED BY <1>1, <1>5, <2>1 DEF FactIsTrue
<1>7. \A e \in new : FactIsTrue(e)'
  BY <1>1, <1>3 DEF FactIsTrue
<1>8. \A e1, e2 \in outbox' : e1.n = e2.n /\ e1.type = e2.type => e1 = e2
  BY <1>2, <1>3, <1>3a DEF ShipmentInv
<1>9. outbox' \subseteq FactRecords /\ handing' \subseteq Attempts'
  BY <1>1, <1>2, <1>3 DEF ShipmentInv
<1>10. \A e \in outbox' : FactIsTrue(e)'
  BY <1>2, <1>6, <1>7
<1>11. ShipmentInv'
  BY <1>1, <1>4, <1>8, <1>9, <1>10 DEF ShipmentInv
<1> QED BY <1>1, <1>2, <1>5, <1>11 DEF ShipmentKept

LEMMA NoFacts ==
  ASSUME NEW n PROVE OutboxEnqueue(n, {}) = outbox
BY DEF OutboxEnqueue

LEMMA ShipmentRests ==
  ASSUME ShipmentInv, UNCHANGED <<attempts, outbox>>, handing' \subseteq handing
  PROVE  ShipmentInv' /\ ShipmentKept
BY DEF ShipmentInv, ShipmentKept, Attempts, FactIsTrue

\* One status change of transition().
LEMMA TransitionKeeps ==
  ASSUME ShipmentInv, NEW n \in Attempts, NEW to, NEW more, transition(n, to, more), handing' \subseteq handing,
         more = {} \/ (more = {"exception_returned"} /\ to = "cancelled" /\ attempts[n].status = "interception_requested")
  PROVE  ShipmentInv' /\ ShipmentKept
<1> DEFINE a == attempts[n]
<1>1. a \in AttemptRecords /\ attempts \in Seq(AttemptRecords) /\ n \in DOMAIN attempts /\ (a.status \in WithCarrier => a.handed)
  BY DEF ShipmentInv, Attempts
<1>2. PICK r : r = [a EXCEPT !.status = to, !.handed = @ \/ to = "shipped"]
  OBVIOUS
<1>3. attempts' = [attempts EXCEPT ![n] = r]
  BY <1>1, <1>2 DEF transition
<1>4. CanMoveShipment(a.status, to)
  BY DEF transition
<1>5. to \in DOMAIN shipmentTransitions /\ a.status \notin {"delivered", "cancelled", "returned", "lost"}
      /\ (to \in WithCarrier => a.status \in WithCarrier \/ to = "shipped")
  BY <1>1, <1>4 DEF CanMoveShipment, shipmentTransitions, AttemptRecords, WithCarrier
<1>6. r \in AttemptRecords /\ r.status = to /\ (r.handed <=> a.handed \/ to = "shipped")
  BY <1>1, <1>2, <1>5 DEF AttemptRecords
<1> DEFINE types == OrderEventsFor(to) \cup more
<1>7. outbox' = OutboxEnqueue(n, types)
  BY DEF transition
<1>8. /\ types \subseteq Facts
      /\ "exception_returned" \in types => to \in {"returned", "cancelled"}
      /\ "exception_lost" \in types => to = "lost"
      /\ types # {} => a.handed \/ to = "shipped"
  <2>2. to \in {"returned", "lost", "delivered"} => a.handed
    BY <1>1, <1>5 DEF WithCarrier
  <2>3. a.status = "interception_requested" => a.handed
    BY <1>1 DEF WithCarrier
  <2>4. OrderEventsFor(to) = IF to \in {"shipped", "delivered"} THEN {to}
                             ELSE IF to = "returned" THEN {"exception_returned"} ELSE IF to = "lost" THEN {"exception_lost"} ELSE {}
    BY <1>5 DEF OrderEventsFor, shipmentTransitions
  <2> QED BY <2>2, <2>3, <2>4 DEF Facts
<1> HIDE DEF types
<1> QED BY <1>1, <1>3, <1>5, <1>6, <1>7, <1>8, OneAttemptMoves DEF WithCarrier

LEMMA InterceptionKeeps ==
  ASSUME ShipmentInv, NEW n \in Attempts, NEW operation \in {"none", "cancellation"},
         attempts[n].status = "shipped", requestInterception(n, operation)
  PROVE  ShipmentInv' /\ ShipmentKept
<1> DEFINE a == attempts[n]
<1>1. a \in AttemptRecords /\ attempts \in Seq(AttemptRecords) /\ n \in DOMAIN attempts /\ a.handed
  BY DEF ShipmentInv, Attempts, WithCarrier
<1>2. PICK r : r = [a EXCEPT !.status = "interception_requested", !.operation = IF operation = "none" THEN @ ELSE operation]
  OBVIOUS
<1>3. attempts' = [attempts EXCEPT ![n] = r]
  BY <1>1, <1>2 DEF requestInterception
<1>4. r \in AttemptRecords /\ r.status = "interception_requested" /\ r.handed
  BY <1>1, <1>2 DEF AttemptRecords, shipmentTransitions
<1> DEFINE types == {}
<1>5. types \in SUBSET Facts /\ "exception_returned" \notin types /\ "exception_lost" \notin types
  OBVIOUS
<1>6. outbox' = OutboxEnqueue(n, types) /\ handing' = handing
  BY NoFacts DEF requestInterception
<1> HIDE DEF types
<1> QED BY <1>1, <1>3, <1>4, <1>5, <1>6, OneAttemptMoves

LEMMA ShopMovesKeep ==
  ASSUME ShipmentInv, ShopMoves
  PROVE  ShipmentInv' /\ ShipmentKept /\ handing' \subseteq handing
<1>1. PICK n \in Attempts :
        \/ MarkReady(n) \/ MarkShipped(n) \/ RecordFailedAttempt(n) \/ MarkDelivered(n)
        \/ \E to \in {"returned", "lost"} : ReportFailure(n, to)
        \/ \E accepted \in BOOLEAN : applyInterception(n, accepted)
  BY DEF ShopMoves
<1> DEFINE a == attempts[n]
<1>2. a \in AttemptRecords /\ attempts \in Seq(AttemptRecords) /\ n \in DOMAIN attempts /\ (a.status \in WithCarrier => a.handed)
  BY DEF ShipmentInv, Attempts
<1>3. CASE MarkReady(n)
  BY <1>3, TransitionKeeps DEF MarkReady
<1>4. CASE MarkDelivered(n)
  BY <1>4, TransitionKeeps DEF MarkDelivered
<1>5. CASE \E to \in {"returned", "lost"} : ReportFailure(n, to)
  BY <1>5, TransitionKeeps DEF ReportFailure
<1>6. CASE \E accepted \in BOOLEAN : applyInterception(n, accepted)
  BY <1>6, TransitionKeeps DEF applyInterception
<1>7. CASE MarkShipped(n)
  <2>1. CASE a.status \notin {"pending", "ready_to_ship", "interception_requested"}
    BY <1>7, <2>1, ShipmentRests DEF MarkShipped
  <2>2. CASE a.status \in {"pending", "ready_to_ship", "interception_requested"}
    <3>1. PICK r : r = [a EXCEPT !.status = "shipped", !.handed = TRUE]
      OBVIOUS
    <3>2. attempts' = [attempts EXCEPT ![n] = r] /\ outbox' = OutboxEnqueue(n, {"shipped"}) /\ handing' = handing \ {n}
      BY <1>2, <1>7, <2>2, <3>1 DEF MarkShipped, OrderEventsFor
    <3>3. r \in AttemptRecords /\ r.status = "shipped" /\ r.handed
      BY <1>2, <3>1 DEF AttemptRecords, shipmentTransitions
    <3>4. "shipped" \in Facts
      BY DEF Facts
    <3>5. a.status \notin {"cancelled", "returned", "lost"}
      BY <2>2
    <3> QED BY <3>2, <3>3, <3>4, <3>5, OneAttemptMoves
  <2> QED BY <2>1, <2>2
<1>8. CASE RecordFailedAttempt(n)
  <2>1. PICK r : r = [a EXCEPT !.failed = @ + 1]
    OBVIOUS
  <2>2. attempts' = [attempts EXCEPT ![n] = r] /\ handing' = handing
    BY <1>2, <1>8, <2>1 DEF RecordFailedAttempt
  <2>2a. a.status = "shipped"
    BY <1>8 DEF RecordFailedAttempt
  <2>3. r \in AttemptRecords /\ r.status = "shipped" /\ r.handed
    BY <1>2, <2>1, <2>2a DEF AttemptRecords, WithCarrier
  <2>4. PICK types : types \in SUBSET {"exception_attempts_exhausted"} /\ outbox' = OutboxEnqueue(n, types)
    <3>1. outbox' = OutboxEnqueue(n, {"exception_attempts_exhausted"}) \/ outbox' = outbox
      BY <1>8 DEF RecordFailedAttempt
    <3> QED BY <3>1, NoFacts
  <2>5. a.status \notin {"cancelled", "returned", "lost"}
    BY <1>8 DEF RecordFailedAttempt
  <2> QED BY <2>2, <2>3, <2>4, <2>5, OneAttemptMoves DEF Facts
<1> QED BY <1>1, <1>3, <1>4, <1>5, <1>6, <1>7, <1>8
LEMMA LatestIsOne ==
  ASSUME ShipmentInv, attempts # <<>>
  PROVE  LatestAttempt \in Attempts
<1>1. attempts \in Seq(AttemptRecords)
  BY DEF ShipmentInv
<1> QED BY <1>1, EmptySeq DEF LatestAttempt, Attempts

LEMMA StopsKeep ==
  ASSUME ShipmentInv, CancelForVendorOrder \/ StopFulfillment \/ InterceptFulfillment
  PROVE  ShipmentInv' /\ ShipmentKept /\ handing' \subseteq handing
<1> DEFINE n == LatestAttempt
<1>1. CASE attempts # <<>> /\ transition(n, "cancelled", {}) /\ UNCHANGED handing
  BY <1>1, LatestIsOne, TransitionKeeps
<1>2. CASE attempts # <<>> /\ attempts[n].status = "shipped"
           /\ (requestInterception(n, "none") \/ requestInterception(n, "cancellation"))
  BY <1>2, LatestIsOne, InterceptionKeeps DEF requestInterception
<1>3. CASE UNCHANGED shipmentVars
  BY <1>3, ShipmentRests DEF shipmentVars
<1> QED BY <1>1, <1>2, <1>3 DEF CancelForVendorOrder, StopFulfillment, InterceptFulfillment

LEMMA GrantKeeps ==
  ASSUME ShipmentInv, NEW n \in Attempts, HandoverGranted(n)
  PROVE  ShipmentInv' /\ ShipmentKept /\ handing' = handing \cup {n}
BY DEF HandoverGranted, ShipmentInv, ShipmentKept, Attempts, FactIsTrue

\* A row of the outbox changes its state.
LEMMA DispatchKeeps ==
  ASSUME ShipmentInv, NEW e \in outbox, e.state # "delivered", NEW state \in {"pending", "delivered", "review"},
         Dispatched(e, state), UNCHANGED <<attempts, handing>>
  PROVE  /\ ShipmentInv' /\ ShipmentKept
         /\ state = "delivered" /\ e.type = "exception_returned" => ReturnIsKnown(e.n)'
<1>1. PICK q : q = [e EXCEPT !.state = state]
  OBVIOUS
<1>2. e \in FactRecords /\ FactIsTrue(e)
  BY DEF ShipmentInv
<1>3. q \in FactRecords /\ q.n = e.n /\ q.type = e.type /\ q.state = state
  BY <1>1, <1>2 DEF FactRecords
<1>4. outbox' = (outbox \ {e}) \cup {q}
  BY <1>1 DEF Dispatched
<1>5. Attempts' = Attempts /\ attempts' = attempts
  BY DEF Attempts
<1>6. \A o \in outbox : FactIsTrue(o)'
  BY <1>5 DEF ShipmentInv, FactIsTrue
<1>7. FactIsTrue(q)'
  BY <1>2, <1>3, <1>5 DEF FactIsTrue
<1>8. \A e1, e2 \in outbox' : e1.n = e2.n /\ e1.type = e2.type => e1 = e2
  BY <1>3, <1>4 DEF ShipmentInv
<1>9. \A o \in outbox' : FactIsTrue(o)'
  BY <1>4, <1>6, <1>7
<1>10. ShipmentInv'
  BY <1>3, <1>4, <1>5, <1>8, <1>9 DEF ShipmentInv
<1>11. ShipmentKept
  BY <1>4, <1>5 DEF ShipmentKept
<1>12. state = "delivered" /\ e.type = "exception_returned" => ReturnIsKnown(e.n)'
  BY <1>3, <1>4 DEF ReturnIsKnown
<1> QED BY <1>10, <1>11, <1>12

\* One attempt more.
LEMMA AttemptComes ==
  ASSUME ShipmentInv, attempts' = Append(attempts, NewAttempt), UNCHANGED <<outbox, handing>>
  PROVE  /\ ShipmentInv' /\ Len(attempts') = Len(attempts) + 1 /\ Len(attempts) \in Nat
         /\ \A n \in Attempts : n \in Attempts' /\ attempts'[n] = attempts[n]
<1>1. NewAttempt \in AttemptRecords /\ NewAttempt.status = "pending"
  BY DEF NewAttempt, AttemptRecords, shipmentTransitions
<1>2. attempts \in Seq(AttemptRecords)
  BY DEF ShipmentInv
<1> HIDE DEF NewAttempt
<1>3. /\ attempts' \in Seq(AttemptRecords) /\ Len(attempts) \in Nat /\ Len(attempts') = Len(attempts) + 1
      /\ \A n \in 1 .. Len(attempts) : attempts'[n] = attempts[n]
      /\ attempts'[Len(attempts) + 1] = NewAttempt
  BY <1>1, <1>2, AppendProperties
<1>4. \A n \in Attempts : n \in Attempts' /\ attempts'[n] = attempts[n]
  BY <1>3 DEF Attempts
<1>5. \A n \in Attempts' : n \in Attempts \/ n = Len(attempts) + 1
  BY <1>3 DEF Attempts
<1>6. \A e \in outbox : FactIsTrue(e)'
  BY <1>4 DEF ShipmentInv, FactIsTrue
<1>7. \A n \in Attempts' : attempts'[n].status \in WithCarrier => attempts'[n].handed
  BY <1>1, <1>3, <1>4, <1>5 DEF ShipmentInv, WithCarrier
<1>8. handing' \subseteq Attempts'
  BY <1>4 DEF ShipmentInv
<1>9. ShipmentInv'
  BY <1>3, <1>6, <1>7, <1>8 DEF ShipmentInv
<1> QED BY <1>3, <1>4, <1>9

-----------------------------------------------------------------------------
(* What a step leaves alone.                                               *)

LEMMA ReturnsStayKnown ==
  ASSUME ShipmentKept PROVE KnownReturns \subseteq KnownReturns'
BY DEF ShipmentKept, ReturnIsKnown, KnownReturns, Attempts

\* The case becomes what it is about the package before the step.
LEMMA CaseBecomes ==
  ASSUME ShipmentInv, ShipmentKept, NEW d, NEW answer, NEW back, back \subseteq KnownReturns',
         CaseOf(d, answer, back), dx' = d, replacing' = answer
  PROVE  CaseInv'
<1>1. Len(attempts') = Len(attempts) /\ Attempts' = Attempts /\ (Redelivered(d)' <=> Redelivered(d))
  BY DEF ShipmentKept, Attempts, Redelivered
<1>2. \A n \in Attempts : attempts[n].handed => attempts'[n].handed
  BY DEF ShipmentKept
<1>3. PICK known : known = KnownReturns'
  OBVIOUS
<1>4. CASE d.status = "none"
  <2>1. CaseOf(d, answer, known)'
    BY <1>1, <1>4 DEF CaseOf, NoCaseYet, IsCase
  <2> QED BY <1>3, <2>1 DEF CaseInv, CaseOf, NoCaseYet, IsCase
<1>5. CASE d.status # "none"
  <2>1. SomeCase(d, answer, back) /\ IsCase(d) /\ d.status \in CaseStatuses /\ answer \in {"none", "created", "refused"}
    BY <1>5 DEF CaseOf
  <2>2. SomeCase(d, answer, known)'
    BY <1>1, <1>2, <1>3, <2>1 DEF SomeCase, CarrierFinal
  <2>3. SomeCase(dx, replacing, KnownReturns)'
    BY <1>3, <2>2 DEF SomeCase, Redelivered, CarrierFinal
  <2> QED BY <1>5, <2>1, <2>3 DEF CaseInv, CaseOf, IsCase
<1> QED BY <1>4, <1>5

LEMMA CaseRests ==
  ASSUME ShipmentInv, CaseInv, ShipmentKept, UNCHANGED <<dx, replacing>>
  PROVE  CaseInv'
<1>1. PICK d, answer, back : d = dx /\ answer = replacing /\ back = KnownReturns
  OBVIOUS
<1>2. CaseOf(d, answer, back)
  BY <1>1 DEF CaseInv
<1> QED BY <1>1, <1>2, ReturnsStayKnown, CaseBecomes

LEMMA FenceRests ==
  ASSUME ShipmentInv, FenceInv, ShipmentKept, handing' \subseteq handing, claim' = claim, CancelIsRecord',
         CancellationOpen' => CancellationOpen \/ claim = 0
  PROVE  FenceInv'
<1>1. SomeHanded => SomeHanded'
  <2>1. Attempts' = Attempts
    BY DEF ShipmentKept, Attempts
  <2> QED BY <2>1 DEF SomeHanded, ShipmentKept
<1> QED BY <1>1 DEF FenceInv
LEMMA OneVendorOrder == vo \in VendorOrders
BY OrderAssumption DEF vo

\* The request and its claim rest; the package may move.
LEMMA RequestRests ==
  ASSUME ExceptionInv, ShipmentKept, handing' \subseteq handing, UNCHANGED <<claim, cancel>>
  PROVE  FenceInv'
<1>1. CancelIsRecord' /\ (CancellationOpen' => CancellationOpen)
  BY DEF ExceptionInv, FenceInv, CancelIsRecord, CancellationOpen
<1> QED BY <1>1, FenceRests DEF ExceptionInv

LEMMA PackageRests ==
  ASSUME ExceptionInv, UNCHANGED shipmentVars
  PROVE  ShipmentInv' /\ ShipmentKept /\ handing' \subseteq handing
BY ShipmentRests DEF shipmentVars, ExceptionInv

\* An effect that is no settlement report is recorded done.
LEMMA EffectDone ==
  ASSUME ExceptionInv, NEW e, \A v \in VendorOrders : Settles(v) # e, effects' = MarkDone(effects, e),
         UNCHANGED <<orderStatus, voStatus, completed, settled>>
  PROVE  LifecycleInv'
<1>1. SameReports(effects')
  BY SameReportsNow, MarkDoneOther DEF ExceptionInv, LifecycleInv
<1> QED BY <1>1, EffectsMove DEF ExceptionInv

LEMMA EffectAdded ==
  ASSUME ExceptionInv, NEW new, \A v \in VendorOrders : Settles(v) \notin new, effects' = Enqueue(effects, new),
         UNCHANGED <<orderStatus, voStatus, completed, settled>>
  PROVE  LifecycleInv'
<1>1. SameReports(effects')
  BY SameReportsNow, EnqueueOther DEF ExceptionInv, LifecycleInv
<1> QED BY <1>1, EffectsMove DEF ExceptionInv

LEMMA OrderRests ==
  ASSUME ExceptionInv, orderUnchanged PROVE LifecycleInv'
BY NothingMoves DEF ExceptionInv, orderUnchanged, lifecycleVars

-----------------------------------------------------------------------------
(* Steps without the case.                                                 *)

LEMMA OrderAloneKeeps ==
  ASSUME ExceptionInv, OrderAlone, UNCHANGED deliveryVars
  PROVE  ExceptionInv'
<1>1. LifecycleInv'
  <2>1. CASE UpdateVendorOrderStatus(vo)
    BY <2>1, ShopAdvances, OneVendorOrder DEF ExceptionInv
  <2>2. CASE settleVendorOrder(vo)
    BY <2>2, ReportArrives, OneVendorOrder DEF ExceptionInv
  <2>3. CASE AdminRequestRefund(vo, refundableFor(vo))
    BY <2>3, AdminAsks DEF ExceptionInv
  <2>4. CASE \E r \in RefundIds : SubmitRefund(r) \/ RecordSubmitted(r) \/ PaymentDecides(r)
    BY <2>4, RefundMoves DEF ExceptionInv
  <2> QED BY <2>1, <2>2, <2>3, <2>4 DEF OrderAlone
<1>2. UNCHANGED <<shipmentVars, cancelVars, deliveryVars>>
  BY DEF OrderAlone
<1>3. ShipmentInv' /\ ShipmentKept /\ handing' \subseteq handing
  BY <1>2, PackageRests
<1>4. FenceInv'
  BY <1>2, <1>3, RequestRests DEF cancelVars
<1>5. CaseInv'
  BY <1>2, <1>3, CaseRests DEF ExceptionInv, deliveryVars
<1> QED BY <1>1, <1>3, <1>4, <1>5 DEF ExceptionInv

\* The package moves alone, or stops for an effect.
LEMMA PackageKeeps ==
  ASSUME ExceptionInv, UNCHANGED deliveryVars, UNCHANGED <<claim, cancel>>,
         ShipmentInv' /\ ShipmentKept /\ handing' \subseteq handing, LifecycleInv'
  PROVE  ExceptionInv'
<1>1. FenceInv'
  BY RequestRests
<1>2. CaseInv'
  BY CaseRests DEF ExceptionInv, deliveryVars
<1> QED BY <1>1, <1>2 DEF ExceptionInv

LEMMA PackageSteps ==
  ASSUME ExceptionInv, UNCHANGED deliveryVars,
         \/ createShipment \/ CreateOrGet \/ cancelShipmentEffect \/ AskStop \/ interceptShipment \/ recoverCancelledStock
         \/ \E e \in outbox : Requeue(e) /\ orderUnchanged /\ UNCHANGED cancelVars
         \/ ShopMoves /\ orderUnchanged /\ UNCHANGED cancelVars
  PROVE  ExceptionInv'
<1> USE OtherKinds
<1>1. CASE createShipment
  <2>1. LifecycleInv'
    BY <1>1, EffectDone DEF createShipment
  <2> QED BY <1>1, <2>1, PackageRests, PackageKeeps DEF createShipment
<1>2. CASE CreateOrGet
  BY <1>2, OrderRests, PackageRests, PackageKeeps DEF CreateOrGet
<1>3. CASE cancelShipmentEffect
  <2>1. LifecycleInv'
    BY <1>3, EffectDone DEF cancelShipmentEffect
  <2> QED BY <1>3, <2>1, StopsKeep, PackageKeeps DEF cancelShipmentEffect, ExceptionInv, cancelVars
<1>4. CASE AskStop
  BY <1>4, OrderRests, StopsKeep, PackageKeeps DEF AskStop, ExceptionInv
<1>5. CASE interceptShipment
  <2>1. LifecycleInv'
    BY <1>5, EffectDone DEF interceptShipment
  <2>2. ShipmentInv' /\ ShipmentKept /\ handing' \subseteq handing
    BY <1>5, StopsKeep, PackageRests DEF interceptShipment, ExceptionInv
  <2> QED BY <1>5, <2>1, <2>2, PackageKeeps DEF interceptShipment, cancelVars
<1>6. CASE recoverCancelledStock
  <2>1. LifecycleInv'
    BY <1>6, EffectDone DEF recoverCancelledStock
  <2> QED BY <1>6, <2>1, PackageRests, PackageKeeps DEF recoverCancelledStock
<1>7. ASSUME NEW e \in outbox, Requeue(e) /\ orderUnchanged /\ UNCHANGED cancelVars
      PROVE  ExceptionInv'
  <2>1. ShipmentInv' /\ ShipmentKept
    BY <1>7, DispatchKeeps DEF Requeue, ExceptionInv
  <2> QED BY <1>7, <2>1, OrderRests, PackageKeeps DEF Requeue, cancelVars
<1>8. CASE ShopMoves /\ orderUnchanged /\ UNCHANGED cancelVars
  BY <1>8, ShopMovesKeep, OrderRests, PackageKeeps DEF ExceptionInv, cancelVars
<1> QED BY <1>1, <1>2, <1>3, <1>4, <1>5, <1>6, <1>7, <1>8

\* Shipment opens the package late: the first attempt, of which no case can be.
LEMMA PackageOpens ==
  ASSUME ExceptionInv, UNCHANGED deliveryVars, createdAtShipment
  PROVE  ExceptionInv'
<1>1. LifecycleInv'
  BY OrderRests DEF createdAtShipment
<1>2. CASE attempts # <<>>
  BY <1>1, <1>2, PackageRests, PackageKeeps DEF createdAtShipment, resolveAndCreate, shipmentVars
<1>3. CASE attempts = <<>>
  <2>1. attempts' = Append(attempts, NewAttempt) /\ UNCHANGED <<outbox, handing>>
    BY <1>3 DEF createdAtShipment, resolveAndCreate
  <2>2. ShipmentInv' /\ Len(attempts') = 1 /\ Attempts = {} /\ handing = {}
    BY <1>3, <2>1, AttemptComes DEF ExceptionInv, ShipmentInv, Attempts
  <2>3. dx.status = "none"
    BY <2>2 DEF ExceptionInv, CaseInv, CaseOf, SomeCase
  <2>4. CaseInv'
    BY <2>2, <2>3 DEF ExceptionInv, CaseInv, CaseOf, IsCase, NoCaseYet, deliveryVars
  <2>5. FenceInv'
    BY <2>1, <2>2 DEF ExceptionInv, FenceInv, CancelIsRecord, CancellationOpen, createdAtShipment
  <2> QED BY <1>1, <2>2, <2>4, <2>5 DEF ExceptionInv
<1> QED BY <1>2, <1>3
\* The request moves, and is open afterwards only if it was or the package is unclaimed.
LEMMA RequestKeeps ==
  ASSUME ExceptionInv, UNCHANGED deliveryVars, UNCHANGED shipmentVars, claim' = claim, CancelIsRecord',
         CancellationOpen' => CancellationOpen \/ claim = 0, LifecycleInv'
  PROVE  ExceptionInv'
<1>1. ShipmentInv' /\ ShipmentKept /\ handing' \subseteq handing
  BY PackageRests
<1>2. FenceInv'
  BY <1>1, FenceRests DEF ExceptionInv
<1>3. CaseInv'
  BY <1>1, CaseRests DEF ExceptionInv, deliveryVars
<1> QED BY <1>1, <1>2, <1>3 DEF ExceptionInv

\* The refund of an open request: whatever is asked of Payment, the request was open.
LEMMA RequestRefunds ==
  ASSUME ExceptionInv, NEW c, c = [cancel EXCEPT !.stop = c.stop], NEW es, SameReports(es), CancellationOpen,
         requestCancellationRefund(c, es), UNCHANGED <<orderStatus, voStatus, completed, settled, claim>>,
         UNCHANGED shipmentVars, UNCHANGED deliveryVars
  PROVE  ExceptionInv'
<1>1. SameReports(effects')
  <2>1. effects' = es \/ effects' = Enqueue(es, {Effect("request_refund", Len(refunds) + 1)})
    BY DEF requestCancellationRefund, createRefund
  <2>2. SameReports(Enqueue(es, {Effect("request_refund", Len(refunds) + 1)}))
    BY EnqueueOther, OtherKinds
  <2> QED BY <2>1, <2>2
<1>2. LifecycleInv'
  BY <1>1, EffectsMove DEF ExceptionInv
<1>3. CancelIsRecord'
  <2>1. cancel = [id |-> cancel.id, status |-> cancel.status, restock |-> cancel.restock, stop |-> cancel.stop,
                  refund |-> cancel.refund, intercept |-> cancel.intercept]
    BY DEF ExceptionInv, FenceInv, CancelIsRecord
  <2>2. PICK stop : c = [cancel EXCEPT !.stop = stop]
    OBVIOUS
  <2>3. c = [id |-> cancel.id, status |-> cancel.status, restock |-> cancel.restock, stop |-> stop,
             refund |-> cancel.refund, intercept |-> cancel.intercept]
    BY <2>1, <2>2
  <2>4. PICK status, refund : cancel' = [c EXCEPT !.status = status, !.refund = refund] \/ cancel' = [c EXCEPT !.status = status]
    BY DEF requestCancellationRefund
  <2>5. PICK refund2 : cancel' = [id |-> cancel.id, status |-> status, restock |-> cancel.restock, stop |-> stop,
                                  refund |-> refund2, intercept |-> cancel.intercept]
    BY <2>3, <2>4
  <2> QED BY <2>5 DEF CancelIsRecord
<1> QED BY <1>2, <1>3, RequestKeeps

LEMMA RequestSteps ==
  ASSUME ExceptionInv, UNCHANGED deliveryVars,
         \/ RequestCancellation \/ acquireCancellationHold \/ \E restock \in BOOLEAN : Approve(restock)
         \/ Reject \/ Intercept \/ RetryRefund \/ stopFulfillment
  PROVE  ExceptionInv'
<1> USE OtherKinds
<1>0. cancel = [id |-> cancel.id, status |-> cancel.status, restock |-> cancel.restock, stop |-> cancel.stop,
                refund |-> cancel.refund, intercept |-> cancel.intercept]
  BY DEF ExceptionInv, FenceInv, CancelIsRecord
<1>0a. \A s \in {"preparing", "requested", "stopping", "needs_review"} : s \in DOMAIN cancellationTransitions
  BY DEF cancellationTransitions
<1>1. CASE RequestCancellation
  <2>1. CancelIsRecord'
    BY <1>1 DEF RequestCancellation, NoCancellation, CancelIsRecord
  <2>2. claim = 0
    BY <1>1 DEF RequestCancellation, CheckCancellable
  <2> QED BY <1>1, <2>1, <2>2, OrderRests, RequestKeeps DEF RequestCancellation
<1>2. CASE acquireCancellationHold
  <2>1. CancelIsRecord' /\ CancellationOpen
    BY <1>0, <1>0a, <1>2 DEF acquireCancellationHold, CancelIsRecord, CancellationOpen
  <2> QED BY <1>2, <2>1, OrderRests, RequestKeeps DEF acquireCancellationHold
<1>3. ASSUME NEW restock \in BOOLEAN, Approve(restock) PROVE ExceptionInv'
  <2>1. CancelIsRecord' /\ CancellationOpen
    BY <1>0, <1>0a, <1>3 DEF Approve, CancelIsRecord, CancellationOpen
  <2>2. LifecycleInv'
    <3>1. /\ effects' = Enqueue(effects, {Effect("stop_fulfillment", cancel.id)})
          /\ UNCHANGED <<orderStatus, voStatus, completed, settled>>
      BY <1>3 DEF Approve
    <3>2. \A v \in VendorOrders : Settles(v) \notin {Effect("stop_fulfillment", cancel.id)}
      OBVIOUS
    <3> QED BY <3>1, <3>2, EffectAdded
  <2> QED BY <1>3, <2>1, <2>2, RequestKeeps DEF Approve
<1>4. CASE Reject
  <2>1. CancelIsRecord' /\ CancellationOpen
    BY <1>0, <1>0a, <1>4 DEF Reject, CancelIsRecord, CancellationOpen
  <2> QED BY <1>4, <2>1, OrderRests, RequestKeeps DEF Reject
<1>5. CASE Intercept
  <2>1. CancelIsRecord' /\ CancellationOpen
    BY <1>0, <1>0a, <1>5 DEF Intercept, CancelIsRecord, CancellationOpen
  <2>2. LifecycleInv'
    BY <1>5, EffectAdded DEF Intercept
  <2> QED BY <1>5, <2>1, <2>2, RequestKeeps DEF Intercept
<1>6. CASE RetryRefund
  <2>1. CancellationOpen
    BY <1>0a, <1>6 DEF RetryRefund, CancellationOpen
  <2>2. SameReports(effects)
    BY SameReportsNow DEF ExceptionInv, LifecycleInv
  <2>3. cancel = [cancel EXCEPT !.stop = cancel.stop]
    BY <1>0
  <2>4. requestCancellationRefund(cancel, effects) /\ UNCHANGED <<orderStatus, voStatus, completed, settled, claim>> /\ UNCHANGED shipmentVars
    BY <1>6 DEF RetryRefund
  <2> QED BY <2>1, <2>2, <2>3, <2>4, RequestRefunds
<1>7. CASE stopFulfillment
  <2> DEFINE c == [cancel EXCEPT !.stop = stopAnswer]
             done == MarkDone(effects, Effect("stop_fulfillment", cancel.id))
             es == IF c.restock THEN Enqueue(done, {Effect("recover_cancelled_stock", c.id)}) ELSE done
  <2>1. CancellationOpen
    BY <1>0a, <1>7 DEF stopFulfillment, CancellationOpen
  <2>2. SameReports(done)
    BY SameReportsNow, MarkDoneOther DEF ExceptionInv, LifecycleInv
  <2> HIDE DEF done
  <2>3. SameReports(es)
    BY <2>2, EnqueueOther
  <2>4. UNCHANGED <<orderStatus, voStatus, completed, settled, claim>> /\ UNCHANGED shipmentVars
    BY <1>7 DEF stopFulfillment
  <2>5. CASE stopAnswer = "stopped"
    <3>1. requestCancellationRefund(c, es)
      BY <1>7, <2>5 DEF stopFulfillment, done
    <3>2. c = [cancel EXCEPT !.stop = c.stop]
      BY <1>0
    <3> HIDE DEF c, es
    <3> QED BY <2>1, <2>3, <2>4, <3>1, <3>2, RequestRefunds
  <2>6. CASE stopAnswer # "stopped"
    <3>1. cancel' = [c EXCEPT !.status = "needs_review"] /\ effects' = done
      BY <1>7, <2>6 DEF stopFulfillment, done
    <3>2. CancelIsRecord'
      BY <1>0, <3>1 DEF CancelIsRecord
    <3>3. LifecycleInv'
      BY <2>2, <2>4, <3>1, EffectsMove DEF ExceptionInv
    <3> QED BY <2>1, <2>4, <3>2, <3>3, RequestKeeps
  <2> QED BY <2>5, <2>6
<1> QED BY <1>1, <1>2, <1>3, <1>4, <1>5, <1>6, <1>7

-----------------------------------------------------------------------------
(* The handover.                                                           *)

LEMMA HandoverKeeps ==
  ASSUME ExceptionInv, UNCHANGED deliveryVars, NEW n \in Attempts, deliveryHandoverAllowed(n)
  PROVE  ExceptionInv'
<1>1. HandoverGranted(n)
  BY DEF deliveryHandoverAllowed, ClaimHandover
<1>2. ShipmentInv' /\ ShipmentKept /\ handing' = handing \cup {n}
  BY <1>1, GrantKeeps DEF ExceptionInv
<1>3. CaseInv'
  BY <1>2, CaseRests DEF ExceptionInv, deliveryVars
<1>4. LifecycleInv'
  BY OrderRests DEF deliveryHandoverAllowed, ClaimHandover, orderUnchanged
<1>5. n \in Nat \ {0}
  BY DEF Attempts
<1>6. FenceInv'
  <2>1. CASE CaseOpen
    <3>1. dx.status # "none"
      BY <2>1 DEF CaseOpen, deliveryExceptionTransitions
    <3>2. SomeHanded
      BY <3>1 DEF ExceptionInv, CaseInv, CaseOf, SomeCase, SomeHanded
    <3>3. SomeHanded'
      BY <1>2, <3>2 DEF SomeHanded, ShipmentKept, Attempts
    <3>4. UNCHANGED <<claim, cancel>>
      BY <2>1 DEF deliveryHandoverAllowed, cancelVars
    <3> QED BY <3>3, <3>4 DEF ExceptionInv, FenceInv, CancelIsRecord, CancellationOpen
  <2>2. CASE ~CaseOpen
    <3>1. ~CancellationOpen /\ cancel' = cancel /\ claim' = IF claim = 0 THEN n ELSE claim
      BY <2>2 DEF deliveryHandoverAllowed, ClaimHandover
    <3> QED BY <1>5, <3>1 DEF ExceptionInv, FenceInv, CancelIsRecord, CancellationOpen
  <2> QED BY <2>1, <2>2
<1> QED BY <1>2, <1>3, <1>4, <1>6 DEF ExceptionInv
-----------------------------------------------------------------------------
(* The case.                                                               *)

\* The case moves and the package rests.
LEMMA CaseKeeps ==
  ASSUME ExceptionInv, UNCHANGED shipmentVars, UNCHANGED <<claim, cancel>>, LifecycleInv',
         NEW d, CaseOf(d, replacing, KnownReturns), dx' = d, replacing' = replacing
  PROVE  ExceptionInv'
<1>1. ShipmentInv' /\ ShipmentKept /\ handing' \subseteq handing
  BY PackageRests
<1>2. FenceInv'
  BY <1>1, RequestRests
<1>3. CaseInv'
  BY <1>1, ReturnsStayKnown, CaseBecomes DEF ExceptionInv
<1> QED BY <1>1, <1>2, <1>3 DEF ExceptionInv

\* A case that stays about the same attempt, with the same refund, and is
\* not offered to the buyer for redelivery by this step.
LEMMA CaseMoves ==
  ASSUME NEW answer, NEW back, CaseOf(dx, answer, back), dx.status # "none", NEW d, IsCase(d),
         d.status \in (CaseStatuses \ {"none", "awaiting_buyer", "redelivery_pending"}) \cup {dx.status},
         d.current = dx.current, d.replacement = dx.replacement, d.refund = dx.refund,
         d.resolution \in {dx.resolution, "refund"} \/ dx.refund = 0,
         d.outcome \in {dx.outcome, "delivered", "attempts_exhausted"},
         Redelivered(dx) /\ CarrierFinal(d) => d.status \in {"redelivery_pending", "resolved"}
  PROVE  CaseOf(d, answer, back)
<1>1. SomeCase(dx, answer, back)
  BY DEF CaseOf
<1>2. Redelivered(d) <=> Redelivered(dx)
  BY DEF Redelivered
<1>3. SomeCase(d, answer, back)
  BY <1>1, <1>2 DEF SomeCase, CarrierFinal
<1> QED BY <1>3 DEF CaseOf

LEMMA OpenCases ==
  /\ DOMAIN deliveryExceptionTransitions = {"investigating", "awaiting_goods", "awaiting_buyer", "redelivery_pending",
                                            "refund_pending", "needs_review"}
  /\ CaseStatuses = {"none", "resolved"} \cup DOMAIN deliveryExceptionTransitions
BY DEF deliveryExceptionTransitions, CaseStatuses

LEMMA HoldMoves ==
  ASSUME ExceptionInv, acquireDeliveryHold \/ releaseDeliveryHoldEffect
  PROVE  ExceptionInv'
<1>1. PICK hold : dx' = [dx EXCEPT !.hold = hold] /\ UNCHANGED <<cancellationVars, receipts, replacing>>
  BY DEF acquireDeliveryHold, releaseDeliveryHoldEffect
<1>2. CaseOf(dx, replacing, KnownReturns)
  BY DEF ExceptionInv, CaseInv
<1>3. PICK d : d = [dx EXCEPT !.hold = hold]
  OBVIOUS
<1>4. /\ IsCase(d) /\ d.status = dx.status /\ d.current = dx.current /\ d.replacement = dx.replacement /\ d.refund = dx.refund
      /\ d.resolution = dx.resolution /\ d.outcome = dx.outcome
  BY <1>2, <1>3 DEF CaseOf, IsCase
<1>5. CaseOf(d, replacing, KnownReturns)
  BY <1>2, <1>4 DEF CaseOf, NoCaseYet, SomeCase, Redelivered, CarrierFinal
<1>6. UNCHANGED lifecycleVars /\ UNCHANGED shipmentVars /\ UNCHANGED <<claim, cancel>>
  BY <1>1 DEF cancellationVars, cancelVars
<1>7. LifecycleInv'
  BY <1>6, OrderRests DEF orderUnchanged
<1> QED BY <1>1, <1>3, <1>5, <1>6, <1>7, CaseKeeps

\* Sellable goods go back on stock: no settlement report.
LEMMA StockEffectsAreOther ==
  ASSUME NEW d PROVE \A v \in VendorOrders : Settles(v) \notin StockEffects(d)
BY OtherKinds DEF StockEffects

LEMMA GoodsRecorded ==
  ASSUME ExceptionInv, NEW actor, NEW condition, RecordGoodsReceipt(actor, condition)
  PROVE  ExceptionInv'
<1>1. CaseOf(dx, replacing, KnownReturns) /\ CaseOpen
  BY DEF ExceptionInv, CaseInv, RecordGoodsReceipt
<1>2. PICK hold, recovery, d :
         /\ d = dx \/ d = [dx EXCEPT !.status = "resolved", !.recovery = recovery, !.hold = hold]
         /\ dx' = d /\ effects' = Enqueue(effects, StockEffects(d))
  BY DEF RecordGoodsReceipt, moveDelivery, releaseDeliveryHold
<1>3. CaseOf(d, replacing, KnownReturns)
  <2>1. CASE d = dx
    BY <1>1, <2>1
  <2>2. CASE d = [dx EXCEPT !.status = "resolved", !.recovery = recovery, !.hold = hold]
    <3>1. /\ IsCase(d) /\ d.status = "resolved" /\ d.current = dx.current /\ d.replacement = dx.replacement
          /\ d.refund = dx.refund /\ d.resolution = dx.resolution /\ d.outcome = dx.outcome
      BY <1>1, <2>2 DEF CaseOf, IsCase
    <3>2. dx.status # "none" /\ "resolved" \in CaseStatuses
      BY <1>1, OpenCases DEF CaseOpen
    <3> QED BY <1>1, <3>1, <3>2, CaseMoves
  <2> QED BY <1>2, <2>1, <2>2
<1>4. LifecycleInv'
  BY <1>2, StockEffectsAreOther, EffectAdded DEF RecordGoodsReceipt
<1>5. UNCHANGED shipmentVars /\ UNCHANGED <<claim, cancel>> /\ replacing' = replacing
  BY DEF RecordGoodsReceipt, cancelVars
<1> QED BY <1>2, <1>3, <1>4, <1>5, CaseKeeps

LEMMA RedeliveryOffered ==
  ASSUME ExceptionInv, Redeliver
  PROVE  ExceptionInv'
<1>1. CaseOf(dx, replacing, KnownReturns) /\ dx.status # "none" /\ SomeCase(dx, replacing, KnownReturns)
  BY OpenCases DEF ExceptionInv, CaseInv, Redeliver, CaseOpen, CaseOf
<1>2. PICK d : d = [dx EXCEPT !.resolution = "redelivery", !.status = "awaiting_buyer"]
  OBVIOUS
<1>3. /\ IsCase(d) /\ d.status = "awaiting_buyer" /\ d.current = dx.current /\ d.replacement = dx.replacement
      /\ d.refund = dx.refund /\ d.outcome = dx.outcome
  BY <1>1, <1>2 DEF CaseOf, IsCase
<1>4. dx.outcome = "returned" /\ dx.resolution # "refund" /\ dx.status \in {"awaiting_goods", "needs_review"}
  BY DEF Redeliver, checkRedelivery, GoodsBack
<1>5. ~Redelivered(dx) /\ dx.refund = 0 /\ dx.current \in KnownReturns
  BY <1>1, <1>4 DEF SomeCase, CarrierFinal
<1>6. CaseOf(d, replacing, KnownReturns)
  BY <1>1, <1>3, <1>5, OpenCases DEF CaseOf, SomeCase, Redelivered
<1>7. /\ UNCHANGED lifecycleVars /\ UNCHANGED shipmentVars /\ UNCHANGED <<claim, cancel>> /\ replacing' = replacing
      /\ dx' = d
  BY <1>2 DEF Redeliver, cancellationVars, cancelVars, moveDelivery
<1>8. LifecycleInv'
  BY <1>7, OrderRests DEF orderUnchanged
<1> QED BY <1>6, <1>7, <1>8, CaseKeeps
LEMMA AfterRefund ==
  ASSUME NEW c, IsCase(c), NEW d, d = afterDeliveryRefund(c)
  PROVE  /\ IsCase(d) /\ d.status \in {"awaiting_goods", "resolved"}
         /\ d.current = c.current /\ d.replacement = c.replacement /\ d.refund = c.refund
         /\ d.resolution = c.resolution /\ d.outcome = c.outcome
<1>1. PICK hold, recovery : \/ d = [c EXCEPT !.status = "awaiting_goods"]
                            \/ d = [c EXCEPT !.status = "resolved", !.recovery = recovery, !.hold = hold]
  BY DEF afterDeliveryRefund, finishDelivery, releaseDeliveryHold
<1>2. c = [status |-> c.status, shipment |-> c.shipment, current |-> c.current, outcome |-> c.outcome,
           resolution |-> c.resolution, count |-> c.count, replacement |-> c.replacement, refund |-> c.refund,
           recovery |-> c.recovery, late |-> c.late, hold |-> c.hold]
  BY DEF IsCase
<1>3. CASE d = [c EXCEPT !.status = "awaiting_goods"]
  BY <1>2, <1>3 DEF IsCase
<1>4. CASE d = [c EXCEPT !.status = "resolved", !.recovery = recovery, !.hold = hold]
  BY <1>2, <1>4 DEF IsCase
<1> QED BY <1>1, <1>3, <1>4

\* The refund of a case whose package was not sent again.
LEMMA CaseRefunds ==
  ASSUME ExceptionInv, dx.status # "none", ~Redelivered(dx), NEW c, c = [dx EXCEPT !.resolution = "refund"],
         requestDeliveryRefund(c)
  PROVE  ExceptionInv'
<1>1. CaseOf(dx, replacing, KnownReturns) /\ SomeCase(dx, replacing, KnownReturns) /\ IsCase(dx)
  BY DEF ExceptionInv, CaseInv, CaseOf
<1>2. /\ IsCase(c) /\ c.status = dx.status /\ c.current = dx.current /\ c.replacement = dx.replacement /\ c.refund = dx.refund
      /\ c.resolution = "refund" /\ c.outcome = dx.outcome
  BY <1>1 DEF IsCase
<1>3. UNCHANGED <<orderStatus, voStatus, completed, settled, claim, cancel>> /\ UNCHANGED shipmentVars /\ replacing' = replacing
  BY DEF requestDeliveryRefund, cancelVars
<1>4. CASE refundableFor(vo) > 0
  <2>1. PICK d, r : d = [c EXCEPT !.refund = r, !.status = "refund_pending"] /\ dx' = d
                    /\ createRefund(vo, refundableFor(vo), "delivery_exception", effects)
    BY <1>4 DEF requestDeliveryRefund, moveDelivery
  <2>2. /\ IsCase(d) /\ d.status = "refund_pending" /\ d.current = dx.current /\ d.replacement = dx.replacement
        /\ d.resolution = "refund" /\ d.outcome = dx.outcome
    BY <1>2, <2>1 DEF IsCase
  <2>3. CaseOf(d, replacing, KnownReturns)
    BY <1>1, <2>2, OpenCases DEF CaseOf, SomeCase, Redelivered
  <2>4. LifecycleInv'
    BY <1>3, <2>1, RefundCreated, SameReportsNow DEF ExceptionInv, LifecycleInv
  <2> QED BY <1>3, <2>1, <2>3, <2>4, CaseKeeps
<1>5. CASE ~(refundableFor(vo) > 0)
  <2>1. PICK d : d = afterDeliveryRefund(c) /\ dx' = d /\ effects' = Enqueue(effects, StockEffects(d))
    BY <1>5 DEF requestDeliveryRefund, moveDelivery
  <2>2. /\ IsCase(d) /\ d.status \in {"awaiting_goods", "resolved"} /\ d.current = dx.current
        /\ d.replacement = dx.replacement /\ d.refund = dx.refund /\ d.resolution = "refund" /\ d.outcome = dx.outcome
    <3>1. IsCase(c) /\ d = afterDeliveryRefund(c)
      BY <1>2, <2>1
    <3>2. /\ IsCase(d) /\ d.status \in {"awaiting_goods", "resolved"}
          /\ d.current = c.current /\ d.replacement = c.replacement /\ d.refund = c.refund
          /\ d.resolution = c.resolution /\ d.outcome = c.outcome
      BY ONLY <3>1, AfterRefund
    <3> QED BY <1>2, <3>2
  <2>3. CaseOf(d, replacing, KnownReturns)
    BY <1>1, <2>2, OpenCases, CaseMoves
  <2>4. LifecycleInv'
    BY <1>3, <2>1, EffectAdded, StockEffectsAreOther
  <2> QED BY <1>3, <2>1, <2>3, <2>4, CaseKeeps
<1> QED BY <1>4, <1>5

LEMMA RefundDecided ==
  ASSUME ExceptionInv, RefundBuyer \/ RetryDeliveryRefund
  PROVE  ExceptionInv'
<1>1. CaseOf(dx, replacing, KnownReturns) /\ IsCase(dx) /\ (dx.status # "none" => SomeCase(dx, replacing, KnownReturns))
  BY DEF ExceptionInv, CaseInv, CaseOf
<1>2. CASE RefundBuyer
  <2>1. dx.status \in {"investigating", "awaiting_goods", "awaiting_buyer", "needs_review"} /\ CarrierFinal(dx)
    BY <1>2 DEF RefundBuyer
  <2>2. ~Redelivered(dx)
    BY <1>1, <2>1 DEF SomeCase
  <2> QED BY <1>2, <2>1, <2>2, CaseRefunds DEF RefundBuyer
<1>3. CASE RetryDeliveryRefund
  <2>1. dx.status = "needs_review" /\ dx.refund # 0
    BY <1>3 DEF RetryDeliveryRefund
  <2>2. ~Redelivered(dx) /\ dx.resolution = "refund"
    BY <1>1, <2>1 DEF SomeCase
  <2>3. dx = [dx EXCEPT !.resolution = "refund"]
    BY <1>1, <2>2 DEF IsCase
  <2> QED BY <1>3, <2>1, <2>2, <2>3, CaseRefunds DEF RetryDeliveryRefund
<1> QED BY <1>2, <1>3

LEMMA CaseCloses ==
  ASSUME ExceptionInv, CloseDelivered
  PROVE  ExceptionInv'
<1>1. CaseOf(dx, replacing, KnownReturns) /\ IsCase(dx) /\ dx.status # "none" /\ SomeCase(dx, replacing, KnownReturns)
  BY OpenCases DEF ExceptionInv, CaseInv, CaseOf, CloseDelivered, CaseOpen
<1>2. PICK resolution, hold, d :
         /\ d = [dx EXCEPT !.resolution = resolution, !.status = "resolved", !.hold = hold] /\ dx' = d
         /\ resolution = dx.resolution \/ dx.resolution = "none"
  <2>1. CASE dx.resolution = "none"
    BY <2>1 DEF CloseDelivered, moveDelivery, releaseDeliveryHold
  <2>2. CASE dx.resolution # "none"
    BY <2>2 DEF CloseDelivered, moveDelivery, releaseDeliveryHold
  <2> QED BY <2>1, <2>2
<1>3. /\ IsCase(d) /\ d.status = "resolved" /\ d.current = dx.current /\ d.replacement = dx.replacement /\ d.refund = dx.refund
      /\ d.resolution = resolution /\ d.outcome = dx.outcome
  BY <1>1, <1>2 DEF IsCase
<1>4. d.resolution = dx.resolution \/ dx.refund = 0
  BY <1>1, <1>2, <1>3 DEF SomeCase
<1>5. CaseOf(d, replacing, KnownReturns)
  BY <1>1, <1>3, <1>4, OpenCases, CaseMoves
<1>6. UNCHANGED lifecycleVars /\ UNCHANGED shipmentVars /\ UNCHANGED <<claim, cancel>> /\ replacing' = replacing
  BY DEF CloseDelivered, cancellationVars, cancelVars
<1>7. LifecycleInv'
  BY <1>6, OrderRests DEF orderUnchanged
<1> QED BY <1>2, <1>5, <1>6, <1>7, CaseKeeps

LEMMA BuyerAnswers ==
  ASSUME ExceptionInv, NEW accept \in BOOLEAN, ConsentRedelivery(accept)
  PROVE  ExceptionInv'
<1>1. CaseOf(dx, replacing, KnownReturns) /\ IsCase(dx) /\ dx.status = "awaiting_buyer" /\ SomeCase(dx, replacing, KnownReturns)
  BY DEF ExceptionInv, CaseInv, CaseOf, ConsentRedelivery
<1>2. ~Redelivered(dx) /\ dx.refund = 0 /\ dx.current \in KnownReturns
  BY <1>1 DEF SomeCase
<1>3. UNCHANGED <<orderStatus, voStatus, completed, settled, claim, cancel>> /\ UNCHANGED shipmentVars /\ replacing' = replacing
  BY DEF ConsentRedelivery, cancelVars
<1>4. CASE accept
  <2>1. PICK count, d : /\ d = [dx EXCEPT !.count = count, !.replacement = 0, !.status = "redelivery_pending"] /\ dx' = d
                        /\ effects' = Enqueue(effects, {Effect("create_replacement_attempt", dx.count + 1)})
    BY <1>4 DEF ConsentRedelivery, moveDelivery
  <2>2. /\ IsCase(d) /\ d.status = "redelivery_pending" /\ d.current = dx.current /\ d.replacement = 0 /\ d.refund = dx.refund
        /\ d.resolution = dx.resolution /\ d.outcome = dx.outcome
    BY <1>1, <2>1 DEF IsCase
  <2>3. CaseOf(d, replacing, KnownReturns)
    BY <1>1, <1>2, <2>2, OpenCases DEF CaseOf, SomeCase, Redelivered
  <2>4. LifecycleInv'
    BY <1>3, <2>1, EffectAdded, OtherKinds
  <2> QED BY <1>3, <2>1, <2>3, <2>4, CaseKeeps
<1>5. CASE ~accept
  <2>1. PICK d : d = [dx EXCEPT !.status = "needs_review"] /\ dx' = d /\ effects' = effects
    BY <1>5 DEF ConsentRedelivery, moveDelivery
  <2>2. /\ IsCase(d) /\ d.status = "needs_review" /\ d.current = dx.current /\ d.replacement = dx.replacement
        /\ d.refund = dx.refund /\ d.resolution = dx.resolution /\ d.outcome = dx.outcome
    BY <1>1, <2>1 DEF IsCase
  <2>3. CaseOf(d, replacing, KnownReturns)
    BY <1>1, <1>2, <2>2, OpenCases, CaseMoves
  <2>4. LifecycleInv'
    BY <1>3, <2>1, NothingMoves DEF ExceptionInv
  <2> QED BY <1>3, <2>1, <2>3, <2>4, CaseKeeps
<1> QED BY <1>4, <1>5
-----------------------------------------------------------------------------
(* The redelivery and the answers of Payment.                              *)

LEMMA RedeliveryAsked ==
  ASSUME ExceptionInv, AskReplacement
  PROVE  ExceptionInv'
<1>1. dx.status = "redelivery_pending" /\ dx.replacement = 0 /\ replacing = "none" /\ dx' = dx
  BY DEF AskReplacement
<1>2. CaseOf(dx, replacing, KnownReturns) /\ SomeCase(dx, replacing, KnownReturns)
  BY <1>1 DEF ExceptionInv, CaseInv, CaseOf
<1>3. UNCHANGED lifecycleVars /\ UNCHANGED <<claim, cancel>>
  BY DEF AskReplacement, cancelVars
<1>4. LifecycleInv'
  BY <1>3, OrderRests DEF orderUnchanged
<1>5. attempts \in Seq(AttemptRecords) /\ Len(attempts) \in Nat /\ dx.current \in 1 .. Len(attempts)
  BY <1>2 DEF ExceptionInv, ShipmentInv, SomeCase, Attempts
<1>6. ASSUME UNCHANGED shipmentVars, NEW answer \in {"created", "refused"}, replacing' = answer,
             answer = "created" <=> Redelivered(dx)
      PROVE  ExceptionInv'
  <2>1. ShipmentInv' /\ ShipmentKept /\ handing' \subseteq handing
    BY <1>6, PackageRests
  <2>2. PICK d : d = dx
    OBVIOUS
  <2>3. CaseOf(d, answer, KnownReturns)
    BY <1>1, <1>2, <1>6, <2>2 DEF CaseOf, SomeCase
  <2>4. CaseInv'
    BY <1>1, <1>6, <2>1, <2>2, <2>3, ReturnsStayKnown, CaseBecomes DEF ExceptionInv
  <2>5. FenceInv'
    BY <1>3, <2>1, RequestRests
  <2> QED BY <1>4, <2>1, <2>4, <2>5 DEF ExceptionInv
<1>7. CASE LatestAttempt > dx.current
  BY <1>6, <1>7 DEF AskReplacement, LatestAttempt, Redelivered
<1>8. CASE ~(LatestAttempt > dx.current) /\ ~ReplacementAccepted(dx.current)
  BY <1>6, <1>8 DEF AskReplacement, LatestAttempt, Redelivered
<1>9. CASE ~(LatestAttempt > dx.current) /\ ReplacementAccepted(dx.current)
  <2>1. /\ attempts' = Append(attempts, NewAttempt) /\ UNCHANGED <<outbox, handing>> /\ replacing' = "created"
    BY <1>9 DEF AskReplacement, CreateReplacementAttempt
  <2>2. dx.current = Len(attempts)
    BY <1>9 DEF ReplacementAccepted, LatestAttempt
  <2>3. /\ ShipmentInv' /\ Len(attempts') = Len(attempts) + 1
        /\ \A n \in Attempts : n \in Attempts' /\ attempts'[n] = attempts[n]
    BY <2>1, AttemptComes DEF ExceptionInv
  <2>4. KnownReturns \subseteq KnownReturns'
    BY <2>1, <2>3 DEF KnownReturns, ReturnIsKnown
  <2>5. Redelivered(dx)'
    BY <1>1, <1>5, <2>2, <2>3 DEF Redelivered
  <2>6. (dx.current \in Attempts /\ attempts[dx.current].handed /\ Len(attempts) <= dx.current + 1)'
    BY <1>1, <1>2, <1>5, <2>2, <2>3 DEF SomeCase
  <2>7. dx.refund = 0 /\ dx.current \in KnownReturns'
    BY <1>1, <1>2, <2>4 DEF SomeCase
  <2>8. SomeCase(dx, replacing, KnownReturns)'
    BY <1>1, <2>1, <2>5, <2>6, <2>7 DEF SomeCase, CarrierFinal
  <2>9. CaseInv'
    BY <1>1, <1>2, <2>1, <2>8 DEF CaseInv, CaseOf, IsCase
  <2>10. SomeHanded => SomeHanded'
    BY <2>3 DEF SomeHanded
  <2>11. FenceInv'
    BY <1>3, <2>1, <2>10 DEF ExceptionInv, FenceInv, CancelIsRecord, CancellationOpen
  <2> QED BY <1>4, <2>3, <2>9, <2>11 DEF ExceptionInv
<1> QED BY <1>7, <1>8, <1>9

LEMMA RedeliveryRecorded ==
  ASSUME ExceptionInv, createReplacementAttempt
  PROVE  ExceptionInv'
<1>1. CaseOf(dx, replacing, KnownReturns) /\ IsCase(dx) /\ replacing \in {"created", "refused"} /\ replacing' = "none"
  BY DEF ExceptionInv, CaseInv, CaseOf, createReplacementAttempt
<1>2. dx.status # "none" /\ SomeCase(dx, replacing, KnownReturns)
  BY <1>1 DEF CaseOf, NoCaseYet
<1>3. UNCHANGED <<orderStatus, voStatus, completed, settled, claim, cancel>> /\ UNCHANGED shipmentVars
  BY DEF createReplacementAttempt, cancelVars
<1>4. LifecycleInv'
  BY <1>3, NothingMoves, EffectDone, OtherKinds DEF createReplacementAttempt, ExceptionInv
<1>5. ShipmentInv' /\ ShipmentKept /\ handing' \subseteq handing
  BY <1>3, PackageRests
<1>6. FenceInv'
  BY <1>3, <1>5, RequestRests
<1>7. PICK d : /\ dx' = d
               /\ \/ d = dx
                  \/ d = [dx EXCEPT !.status = "needs_review"] /\ replacing = "refused"
                  \/ d = [dx EXCEPT !.replacement = dx.current + 1] /\ replacing = "created"
  BY <1>1 DEF createReplacementAttempt, moveDelivery
<1>8. CaseOf(d, "none", KnownReturns)
  <2>1. CASE d = dx
    BY <1>1, <1>2, <2>1 DEF CaseOf, SomeCase
  <2>2. CASE d = [dx EXCEPT !.status = "needs_review"] /\ replacing = "refused"
    <3>1. /\ IsCase(d) /\ d.status = "needs_review" /\ d.current = dx.current /\ d.replacement = dx.replacement
          /\ d.refund = dx.refund /\ d.resolution = dx.resolution /\ d.outcome = dx.outcome
      BY <1>1, <2>2 DEF IsCase
    <3>2. ~Redelivered(dx)
      BY <1>2, <2>2 DEF SomeCase
    <3> QED BY <1>2, <3>1, <3>2, OpenCases DEF CaseOf, SomeCase, Redelivered
  <2>3. CASE d = [dx EXCEPT !.replacement = dx.current + 1] /\ replacing = "created"
    <3>1. /\ IsCase(d) /\ d.status = dx.status /\ d.current = dx.current /\ d.replacement = dx.current + 1
          /\ d.refund = dx.refund /\ d.resolution = dx.resolution /\ d.outcome = dx.outcome
      BY <1>1, <2>3 DEF IsCase
    <3>2. Redelivered(dx)
      BY <1>2, <2>3 DEF SomeCase
    <3> QED BY <1>1, <1>2, <3>1, <3>2 DEF CaseOf, SomeCase, Redelivered, CarrierFinal
  <2> QED BY <1>7, <2>1, <2>2, <2>3
<1>9. CaseInv'
  BY <1>1, <1>5, <1>7, <1>8, ReturnsStayKnown, CaseBecomes DEF ExceptionInv
<1> QED BY <1>4, <1>5, <1>6, <1>9 DEF ExceptionInv

LEMMA StockRecovered ==
  ASSUME ExceptionInv, recoverDeliveryStock
  PROVE  ExceptionInv'
<1>1. LifecycleInv'
  BY EffectDone, OtherKinds DEF recoverDeliveryStock
<1> QED BY <1>1, PackageRests, PackageKeeps DEF recoverDeliveryStock

\* The request of a cancellation follows its refund.
LEMMA RequestFollows ==
  ASSUME ExceptionInv, NEW r, NEW succeeded, syncCancellationRefund(r, succeeded)
  PROVE  CancelIsRecord' /\ (CancellationOpen' => CancellationOpen)
<1>1. cancel = [id |-> cancel.id, status |-> cancel.status, restock |-> cancel.restock, stop |-> cancel.stop,
                refund |-> cancel.refund, intercept |-> cancel.intercept]
  BY DEF ExceptionInv, FenceInv, CancelIsRecord
<1>2. PICK s : \/ cancel' = cancel
               \/ cancel' = [cancel EXCEPT !.status = s] /\ cancel.status = "refund_pending"
  BY DEF syncCancellationRefund
<1>3. "refund_pending" \in DOMAIN cancellationTransitions
  BY DEF cancellationTransitions
<1> QED BY <1>1, <1>2, <1>3 DEF CancelIsRecord, CancellationOpen

LEMMA RefundsAnswered ==
  ASSUME ExceptionInv, NEW r, DeliveryRefundAnswered(r)
  PROVE  ExceptionInv'
<1>1. CaseOf(dx, replacing, KnownReturns) /\ IsCase(dx) /\ (dx.status # "none" => SomeCase(dx, replacing, KnownReturns))
  BY DEF ExceptionInv, CaseInv, CaseOf
<1>2. CASE dx.refund # r
  <2>1. RefundAnswered(r) /\ UNCHANGED deliveryVars
    BY <1>2 DEF DeliveryRefundAnswered, deliveryVars
  <2>2. LifecycleInv'
    BY <2>1, RefundMoves DEF RefundAnswered, ExceptionInv
  <2>3. CancelIsRecord' /\ (CancellationOpen' => CancellationOpen) /\ UNCHANGED shipmentVars /\ claim' = claim
    BY <2>1, RequestFollows DEF RefundAnswered
  <2> QED BY <2>1, <2>2, <2>3, RequestKeeps
<1>3. CASE dx.refund = r
  <2>1. PICK d : /\ d = syncDeliveryRefund(payment[r] = "succeeded") /\ dx' = d
                 /\ \/ ApplyRefundOutcome(r, payment[r], Enqueue(effects, StockEffects(d))) /\ UNCHANGED <<completed, payment, settled>>
                    \/ RejectRefund(r)
                 /\ UNCHANGED <<shipmentVars, cancelVars, receipts, replacing>>
    BY <1>3 DEF DeliveryRefundAnswered, moveDelivery
  <2>2. LifecycleInv'
    <3>1. SameReports(Enqueue(effects, StockEffects(d)))
      BY SameReportsNow, EnqueueOther, StockEffectsAreOther DEF ExceptionInv, LifecycleInv
    <3> QED BY <2>1, <3>1, OutcomeApplies, RefundMoves DEF ExceptionInv
  <2>3. CaseOf(d, replacing, KnownReturns)
    <3>1. CASE dx.status # "refund_pending"
      BY <1>1, <2>1, <3>1 DEF syncDeliveryRefund
    <3>2. CASE dx.status = "refund_pending"
      <4>1. d = afterDeliveryRefund(dx) \/ d = [dx EXCEPT !.status = "needs_review"]
        BY <2>1, <3>2 DEF syncDeliveryRefund
      <4>2. /\ IsCase(d) /\ d.status \in {"awaiting_goods", "resolved", "needs_review"} /\ d.current = dx.current
            /\ d.replacement = dx.replacement /\ d.refund = dx.refund /\ d.resolution = dx.resolution /\ d.outcome = dx.outcome
        <5>1. CASE d = afterDeliveryRefund(dx)
          <6>1. PICK c : c = dx
            OBVIOUS
          <6>2. IsCase(c) /\ d = afterDeliveryRefund(c)
            BY <1>1, <5>1, <6>1
          <6>3. /\ IsCase(d) /\ d.status \in {"awaiting_goods", "resolved"}
                /\ d.current = c.current /\ d.replacement = c.replacement /\ d.refund = c.refund
                /\ d.resolution = c.resolution /\ d.outcome = c.outcome
            BY ONLY <6>2, AfterRefund
          <6> QED BY <6>1, <6>3
        <5>2. CASE d = [dx EXCEPT !.status = "needs_review"]
          BY <1>1, <5>2 DEF IsCase
        <5> QED BY <4>1, <5>1, <5>2
      <4>3. ~(Redelivered(dx) /\ CarrierFinal(d))
        BY <1>1, <3>2, <4>2 DEF SomeCase, CarrierFinal
      <4> QED BY <1>1, <3>2, <4>2, <4>3, OpenCases, CaseMoves
    <3> QED BY <3>1, <3>2
  <2> QED BY <2>1, <2>2, <2>3, CaseKeeps DEF cancelVars
<1> QED BY <1>2, <1>3
-----------------------------------------------------------------------------
(* Facts of the shipment.                                                  *)

\* A pending fact of attempt n is not one Order knows, and its attempt is what it says.
LEMMA PendingFact ==
  ASSUME ShipmentInv, NEW e \in outbox, Dispatchable(e)
  PROVE  /\ e.n \in Attempts /\ attempts[e.n].handed /\ e.state = "pending" /\ e.state # "delivered"
         /\ e.type \in {"exception_returned", "exception_lost"} => e.n \notin KnownReturns
<1>1. FactIsTrue(e) /\ e.state = "pending"
  BY DEF ShipmentInv, Dispatchable
<1>2. ASSUME e.type = "exception_returned" PROVE e.n \notin KnownReturns
  BY <1>1, <1>2 DEF ShipmentInv, KnownReturns, ReturnIsKnown
<1>3. ASSUME e.type = "exception_lost" PROVE e.n \notin KnownReturns
  <2> SUFFICES ASSUME NEW o \in outbox, o.n = e.n, o.type = "exception_returned" PROVE FALSE
    BY DEF KnownReturns, ReturnIsKnown
  <2>1. FactIsTrue(o)
    BY DEF ShipmentInv
  <2> QED BY <1>1, <1>3, <2>1 DEF FactIsTrue
<1> QED BY <1>1, <1>2, <1>3 DEF FactIsTrue

\* An open case hears of its attempt, or of the redelivery.
LEMMA OpenCaseHears ==
  ASSUME ExceptionInv, CaseOpen, NEW n \in Attempts, attempts[n].handed, NEW fact \in {"returned", "lost", "attempts_exhausted"},
         fact \in {"returned", "lost"} => n \notin KnownReturns,
         NEW back, KnownReturns \subseteq back, fact = "returned" => n \in back,
         NEW d, d = [dx EXCEPT !.current = n, !.outcome = fact,
                               !.status = IF @ \in {"investigating", "redelivery_pending"} THEN StatusForFact(fact) ELSE @],
         (n = dx.current /\ fact # dx.outcome) \/ (n # dx.current /\ n = dx.replacement)
  PROVE  CaseOf(d, replacing, back)
<1>1. /\ CaseOf(dx, replacing, KnownReturns) /\ IsCase(dx) /\ dx.status # "none" /\ dx.status \in CaseStatuses
      /\ SomeCase(dx, replacing, KnownReturns)
  BY OpenCases DEF ExceptionInv, CaseInv, CaseOf, CaseOpen
<1>2. /\ IsCase(d) /\ d.current = n /\ d.outcome = fact /\ d.replacement = dx.replacement /\ d.refund = dx.refund
      /\ d.resolution = dx.resolution
      /\ d.status = IF dx.status \in {"investigating", "redelivery_pending"} THEN StatusForFact(fact) ELSE dx.status
  BY <1>1 DEF IsCase
<1>3. /\ d.status \in CaseStatuses /\ d.status # "none" /\ d.status # "redelivery_pending"
      /\ d.status = "awaiting_buyer" => dx.status = "awaiting_buyer"
  BY <1>1, <1>2, OpenCases DEF StatusForFact
<1>4. attempts \in Seq(AttemptRecords) /\ Len(attempts) \in Nat /\ dx.current \in 1 .. Len(attempts) /\ n \in 1 .. Len(attempts)
  BY <1>1 DEF ExceptionInv, ShipmentInv, SomeCase, Attempts
<1>5. CASE n = dx.current
  <2>1. Redelivered(d) <=> Redelivered(dx)
    BY <1>2, <1>5 DEF Redelivered
  <2>2. fact \in {"returned", "lost"} => ~Redelivered(dx) /\ dx.status \notin {"awaiting_buyer", "redelivery_pending"}
    BY <1>1, <1>5 DEF SomeCase
  <2>3. CarrierFinal(d) => fact \in {"returned", "lost"}
    BY <1>2 DEF CarrierFinal
  <2>4. SomeCase(d, replacing, back)
    BY <1>1, <1>2, <1>3, <1>5, <2>1, <2>2, <2>3 DEF SomeCase
  <2> QED BY <1>1, <1>2, <1>3, <2>4 DEF CaseOf
<1>6. CASE n # dx.current /\ n = dx.replacement
  <2>1. n = dx.current + 1 /\ Redelivered(dx)
    BY <1>1, <1>4, <1>6 DEF SomeCase
  <2>2. Len(attempts) <= n /\ ~Redelivered(d)
    BY <1>1, <1>2, <1>4, <2>1 DEF SomeCase, Redelivered
  <2>3. dx.refund = 0 /\ dx.status # "awaiting_buyer" /\ replacing # "created"
    BY <1>1, <1>4, <1>6, <2>1 DEF SomeCase
  <2>4. SomeCase(d, replacing, back)
    BY <1>2, <1>3, <1>4, <1>6, <2>2, <2>3 DEF SomeCase
  <2> QED BY <1>1, <1>2, <1>3, <2>4 DEF CaseOf
<1> QED BY <1>5, <1>6

LEMMA ExceptionHeard ==
  ASSUME ExceptionInv, NEW e \in outbox, ExceptionArrives(e)
  PROVE  ExceptionInv'
<1> DEFINE fact == exceptionFacts[e.type]
           n == e.n
<1>1. /\ Dispatchable(e) /\ e.type \in DOMAIN exceptionFacts /\ Dispatched(e, "delivered") /\ ApplyShipmentException(n, fact)
      /\ UNCHANGED lifecycleVars /\ UNCHANGED <<attempts, handing, claim, replacing>>
  BY DEF ExceptionArrives
<1>2. /\ n \in Attempts /\ attempts[n].handed /\ e.state # "delivered"
      /\ e.type \in {"exception_returned", "exception_lost"} => n \notin KnownReturns
  BY <1>1, PendingFact DEF ExceptionInv
<1>3. /\ fact \in {"returned", "lost", "attempts_exhausted"}
      /\ fact \in {"returned", "lost"} => e.type \in {"exception_returned", "exception_lost"}
      /\ fact = "returned" => e.type = "exception_returned"
  BY <1>1 DEF exceptionFacts
<1>4. /\ ShipmentInv' /\ ShipmentKept /\ (e.type = "exception_returned" => ReturnIsKnown(n)')
  BY <1>1, <1>2, DispatchKeeps DEF ExceptionInv
<1> HIDE DEF fact
<1>5. PICK back : back = KnownReturns'
  OBVIOUS
<1>6. KnownReturns \subseteq back /\ (fact = "returned" => n \in back)
  <2>1. n \in Attempts'
    BY <1>1, <1>2 DEF Attempts
  <2> QED BY <1>3, <1>4, <1>5, <2>1, ReturnsStayKnown DEF KnownReturns
<1> HIDE DEF n
<1>7. LifecycleInv'
  BY <1>1, OrderRests DEF orderUnchanged
<1>8. CASE dx' = dx /\ cancel' = cancel
  <2>1. FenceInv'
    BY <1>1, <1>4, <1>8, RequestRests
  <2>2. CaseInv'
    BY <1>1, <1>4, <1>8, CaseRests DEF ExceptionInv
  <2> QED BY <1>4, <1>7, <2>1, <2>2 DEF ExceptionInv
<1>9. CASE CaseOpen /\ ~(dx' = dx /\ cancel' = cancel)
  <2>1. cancel' = cancel /\ applyFactToOpen(n, fact)
    BY <1>1, <1>9 DEF ApplyShipmentException
  <2>2. PICK d : /\ d = [dx EXCEPT !.current = n, !.outcome = fact,
                                   !.status = IF @ \in {"investigating", "redelivery_pending"} THEN StatusForFact(fact) ELSE @]
                 /\ dx' = d
                 /\ (n = dx.current /\ fact # dx.outcome) \/ (n # dx.current /\ n = dx.replacement)
    BY <1>9, <2>1 DEF applyFactToOpen, moveDelivery
  <2>3. CaseOf(d, replacing, back)
    BY <1>2, <1>3, <1>6, <1>9, <2>2, OpenCaseHears
  <2>4. CaseInv'
    BY <1>1, <1>4, <1>5, <2>2, <2>3, CaseBecomes DEF ExceptionInv
  <2>5. FenceInv'
    BY <1>1, <1>4, <2>1, RequestRests
  <2> QED BY <1>4, <1>7, <2>4, <2>5 DEF ExceptionInv
<1>10. CASE ~CaseOpen /\ ~(dx' = dx /\ cancel' = cancel)
  <2>1. PICK d : /\ d = [NoCase EXCEPT !.status = StatusForFact(fact), !.shipment = n, !.current = n, !.outcome = fact,
                                       !.hold = "preparing"]
                 /\ dx' = d /\ dx.status = "none" /\ transferCancellation
    BY <1>1, <1>10 DEF ApplyShipmentException
  <2>2. /\ IsCase(d) /\ d.status \in {"investigating", "awaiting_goods"} /\ d.current = n /\ d.outcome = fact
        /\ d.replacement = 0 /\ d.refund = 0
    BY <2>1 DEF NoCase, IsCase, StatusForFact
  <2>3. Len(attempts) <= 1 /\ replacing = "none"
    BY <2>1 DEF ExceptionInv, CaseInv, CaseOf, NoCaseYet
  <2>4. attempts \in Seq(AttemptRecords) /\ Len(attempts) \in Nat /\ n \in 1 .. Len(attempts)
    BY <1>2 DEF ExceptionInv, ShipmentInv, Attempts
  <2>5. ~Redelivered(d) /\ Len(attempts) <= d.current + 1
    BY <2>2, <2>3, <2>4 DEF Redelivered
  <2>6. SomeCase(d, replacing, back)
    BY <1>2, <1>6, <2>2, <2>3, <2>5 DEF SomeCase
  <2>7. CaseOf(d, replacing, back)
    BY <2>2, <2>3, <2>6, OpenCases DEF CaseOf
  <2>8. CaseInv'
    BY <1>1, <1>4, <1>5, <2>1, <2>7, CaseBecomes DEF ExceptionInv
  <2>9. CancelIsRecord' /\ (CancellationOpen' => CancellationOpen)
    <3>1. cancel = [id |-> cancel.id, status |-> cancel.status, restock |-> cancel.restock, stop |-> cancel.stop,
                    refund |-> cancel.refund, intercept |-> cancel.intercept]
      BY DEF ExceptionInv, FenceInv, CancelIsRecord
    <3>2. cancel' = cancel \/ (cancel' = [cancel EXCEPT !.status = "transferred"] /\ cancel.status = "needs_review")
      BY <2>1 DEF transferCancellation
    <3>3. "needs_review" \in DOMAIN cancellationTransitions
      BY DEF cancellationTransitions
    <3> QED BY <3>1, <3>2, <3>3 DEF CancelIsRecord, CancellationOpen
  <2>10. FenceInv'
    BY <1>1, <1>4, <2>9, FenceRests DEF ExceptionInv
  <2> QED BY <1>4, <1>7, <2>8, <2>10 DEF ExceptionInv
<1> QED BY <1>8, <1>9, <1>10

\* A delivered fact, as the case takes it.
LEMMA DeliveryNoted ==
  ASSUME ExceptionInv, NEW n \in Attempts, attempts[n].handed, noteDeliveredForException(n)
  PROVE  \E d : dx' = d /\ CaseOf(d, replacing, KnownReturns)
<1>1. CaseOf(dx, replacing, KnownReturns) /\ IsCase(dx)
  BY DEF ExceptionInv, CaseInv, CaseOf
<1>2. CASE dx' = dx
  BY <1>1, <1>2
<1>3. CASE CaseOpen /\ n = dx.replacement /\ dx.status = "redelivery_pending"
  <2>1. PICK d, hold : d = [dx EXCEPT !.current = n, !.outcome = "delivered", !.status = "resolved", !.hold = hold] /\ dx' = d
    BY <1>3 DEF noteDeliveredForException, moveDelivery, releaseDeliveryHold
  <2>2. /\ IsCase(d) /\ d.current = n /\ d.outcome = "delivered" /\ d.replacement = dx.replacement /\ d.refund = dx.refund
        /\ d.resolution = dx.resolution /\ d.status = "resolved"
    BY <1>1, <2>1 DEF IsCase
  <2>3. SomeCase(dx, replacing, KnownReturns) /\ replacing \in {"none", "created", "refused"}
    BY <1>1, <1>3 DEF CaseOf
  <2>4. attempts \in Seq(AttemptRecords) /\ Len(attempts) \in Nat /\ dx.current \in 1 .. Len(attempts) /\ n \in 1 .. Len(attempts)
    BY <2>3 DEF ExceptionInv, ShipmentInv, SomeCase, Attempts
  <2>5. replacing # "created" /\ dx.refund = 0 /\ dx.current \in KnownReturns
    BY <1>3, <2>3, <2>4 DEF SomeCase
  <2>6. n = dx.current \/ n = dx.current + 1
    BY <1>3, <2>3, <2>4 DEF SomeCase
  <2>7. Len(attempts) <= d.current + 1 /\ (Redelivered(d) => Redelivered(dx) /\ d.current = dx.current)
    BY <2>2, <2>3, <2>4, <2>6 DEF SomeCase, Redelivered
  <2>8. SomeCase(d, replacing, KnownReturns)
    BY <1>3, <2>2, <2>3, <2>5, <2>7 DEF SomeCase, CarrierFinal
  <2>9. "resolved" \in CaseStatuses
    BY DEF CaseStatuses
  <2>10. CaseOf(d, replacing, KnownReturns)
    BY <2>2, <2>3, <2>8, <2>9 DEF CaseOf
  <2> QED BY <2>1, <2>10
<1>4. CASE CaseOpen /\ ~(n = dx.replacement /\ dx.status = "redelivery_pending") /\ dx' # dx
  <2>1. PICK d : /\ d = [dx EXCEPT !.late = TRUE, !.outcome = "delivered"]
                    \/ d = [dx EXCEPT !.late = TRUE, !.outcome = "delivered", !.status = "needs_review"]
                 /\ dx' = d
    <3>1. CASE CanTransitionDeliveryException(dx.status, "needs_review")
      BY <1>1, <1>4, <3>1 DEF noteDeliveredForException, IsCase
    <3>2. CASE ~CanTransitionDeliveryException(dx.status, "needs_review")
      BY <1>1, <1>4, <3>2 DEF noteDeliveredForException
    <3> QED BY <3>1, <3>2
  <2>2. /\ IsCase(d) /\ d.current = dx.current /\ d.outcome = "delivered" /\ d.replacement = dx.replacement /\ d.refund = dx.refund
        /\ d.resolution = dx.resolution /\ d.status \in {dx.status, "needs_review"}
    BY <1>1, <2>1 DEF IsCase
  <2>3. dx.status # "none" /\ ~CarrierFinal(d)
    BY <1>4, <2>2, OpenCases DEF CaseOpen, CarrierFinal
  <2> QED BY <1>1, <2>1, <2>2, <2>3, OpenCases, CaseMoves
<1> QED BY <1>2, <1>3, <1>4 DEF noteDeliveredForException

LEMMA FactHeard ==
  ASSUME ExceptionInv, NEW e \in outbox, ShipmentFactArrives(e)
  PROVE  ExceptionInv'
<1>1. /\ Dispatchable(e) /\ e.type \in DOMAIN shipmentPaths
      /\ UNCHANGED <<settled, attempts, handing, claim, cancel, replacing>>
  BY DEF ShipmentFactArrives, cancelVars
<1>2. e.n \in Attempts /\ attempts[e.n].handed /\ e.state # "delivered"
  BY <1>1, PendingFact DEF ExceptionInv
<1>3. PICK state \in {"delivered", "review"} : Dispatched(e, state)
  BY DEF ShipmentFactArrives
<1>4. ShipmentInv' /\ ShipmentKept
  BY <1>1, <1>2, <1>3, DispatchKeeps DEF ExceptionInv
<1>5. LifecycleInv'
  <2>1. CASE ApplyShipmentEvent(vo, e.type)
    BY <1>1, <2>1, ShipmentAdvances, OneVendorOrder DEF ExceptionInv
  <2>2. CASE UNCHANGED <<orderStatus, voStatus, completed, effects>>
    BY <1>1, <2>2, NothingMoves DEF ExceptionInv
  <2> QED BY <2>1, <2>2 DEF ShipmentFactArrives
<1>6. FenceInv'
  BY <1>1, <1>4, RequestRests
<1>7. PICK d : dx' = d /\ CaseOf(d, replacing, KnownReturns)
  <2>1. CASE noteDeliveredForException(e.n)
    BY <1>2, <2>1, DeliveryNoted
  <2>2. CASE dx' = dx
    BY <2>2 DEF ExceptionInv, CaseInv
  <2> QED BY <2>1, <2>2 DEF ShipmentFactArrives
<1>8. CaseInv'
  BY <1>1, <1>4, <1>7, ReturnsStayKnown, CaseBecomes DEF ExceptionInv
<1> QED BY <1>4, <1>5, <1>6, <1>8 DEF ExceptionInv

-----------------------------------------------------------------------------
(* The whole vendor order.                                                 *)

LEMMA ExceptionStart ==
  ASSUME ExceptionInit PROVE ExceptionInv
<1>1. LifecycleInv
  <2>1. /\ orderStatus = "paid" /\ voStatus = [v \in VendorOrders |-> "paid"] /\ completed = {} /\ settled = {}
        /\ IsEffects(effects)
        /\ \A v \in VendorOrders : Settles(v) \notin effects.pending \cup effects.done \cup effects.parked
    BY OtherKinds DEF ExceptionInit, PaidInit, IsEffects, Settles, Effect
  <2>2. LifecycleOK
    <3>1. rankOf("paid") <= rankOf("paid")
      BY Ranks DEF Statuses
    <3> QED BY <2>1, <3>1 DEF LifecycleOK, NotAhead, Statuses
  <2>3. LedgerOK
    BY <2>1 DEF LedgerOK, SalesReachLedger
  <2> QED BY <2>2, <2>3 DEF LifecycleInv
<1>2. handing = {} /\ claim = 0 /\ cancel = NoCancellation /\ dx = NoCase /\ replacing = "none"
  BY DEF ExceptionInit, DeliveryInit, CancelInit
<1>3. ASSUME NoShipmentInit PROVE ShipmentInv /\ Len(attempts) <= 1
  <2>1. attempts = <<>> /\ outbox = {}
    BY <1>3 DEF NoShipmentInit
  <2>2. ShipmentInv /\ Len(attempts) <= 1
    BY <1>2, <2>1 DEF ShipmentInv, Attempts
  <2> QED BY <2>2
<1>4. ASSUME /\ attempts = <<[NewAttempt EXCEPT !.status = "shipped", !.handed = TRUE]>>
             /\ outbox = {[n |-> 1, type |-> "shipped", state |-> "pending"]}
      PROVE  ShipmentInv /\ Len(attempts) <= 1
  <2>0. PICK a : a = [NewAttempt EXCEPT !.status = "shipped", !.handed = TRUE]
    OBVIOUS
  <2>1. a = [status |-> "shipped", handed |-> TRUE, failed |-> 0, operation |-> "none"] /\ attempts = <<a>>
    BY <1>4, <2>0 DEF NewAttempt
  <2>2. a \in AttemptRecords
    BY <2>1 DEF AttemptRecords, shipmentTransitions
  <2>3. attempts \in Seq(AttemptRecords) /\ Attempts = {1} /\ Len(attempts) = 1
    BY <2>1, <2>2 DEF Attempts
  <2>4. outbox \subseteq FactRecords
    BY <1>4 DEF FactRecords, Facts
  <2>5. attempts[1] = a
    BY <2>1
  <2>6. \A n \in Attempts : attempts[n].handed
    BY <2>1, <2>3, <2>5
  <2>7. \A e \in outbox : e.n = 1 /\ e.type = "shipped"
    BY <1>4
  <2>8. \A e \in outbox : FactIsTrue(e)
    BY <2>3, <2>6, <2>7 DEF FactIsTrue
  <2>9. \A e1, e2 \in outbox : e1 = e2
    BY <1>4
  <2>10. ShipmentInv
    BY <1>2, <2>3, <2>4, <2>6, <2>8, <2>9 DEF ShipmentInv
  <2> QED BY <2>3, <2>10
<1>5. ShipmentInv /\ Len(attempts) <= 1
  BY <1>3, <1>4 DEF ExceptionInit, PaidInit
<1>6. CaseInv
  BY <1>2, <1>5 DEF CaseInv, CaseOf, NoCase, IsCase, CaseStatuses, NoCaseYet
<1>7. FenceInv
  BY <1>2 DEF FenceInv, CancelIsRecord, NoCancellation, CancellationOpen
<1> QED BY <1>1, <1>5, <1>6, <1>7 DEF ExceptionInv

LEMMA ExceptionSteps ==
  ASSUME ExceptionInv, [ExceptionStep]_exceptionVars
  PROVE  ExceptionInv'
<1>1. CASE acquireDeliveryHold \/ releaseDeliveryHoldEffect
  BY <1>1, HoldMoves
<1>2. CASE \E actor \in {"vendor", "admin"}, c \in Conditions : RecordGoodsReceipt(actor, c)
  BY <1>2, GoodsRecorded
<1>3. CASE Redeliver
  BY <1>3, RedeliveryOffered
<1>4. CASE RefundBuyer \/ RetryDeliveryRefund
  BY <1>4, RefundDecided
<1>5. CASE CloseDelivered
  BY <1>5, CaseCloses
<1>6. CASE \E accept \in BOOLEAN : ConsentRedelivery(accept)
  BY <1>6, BuyerAnswers
<1>7. CASE AskReplacement
  BY <1>7, RedeliveryAsked
<1>8. CASE createReplacementAttempt
  BY <1>8, RedeliveryRecorded
<1>9. CASE recoverDeliveryStock
  BY <1>9, StockRecovered
<1>10. CASE \E r \in RefundIds : DeliveryRefundAnswered(r)
  BY <1>10, RefundsAnswered
<1>11. CASE \E e \in outbox : ExceptionArrives(e) \/ ShipmentFactArrives(e)
  BY <1>11, ExceptionHeard, FactHeard
<1>12. CASE \E n \in Attempts : deliveryHandoverAllowed(n) /\ UNCHANGED deliveryVars
  BY <1>12, HandoverKeeps
<1>13. CASE OrderAlone /\ UNCHANGED deliveryVars
  BY <1>13, OrderAloneKeeps
<1>14. CASE /\ UNCHANGED deliveryVars
            /\ \/ createShipment \/ CreateOrGet \/ cancelShipmentEffect \/ AskStop \/ interceptShipment \/ recoverCancelledStock
               \/ \E e \in outbox : Requeue(e) /\ orderUnchanged /\ UNCHANGED cancelVars
               \/ ShopMoves /\ orderUnchanged /\ UNCHANGED cancelVars
  BY <1>14, PackageSteps
<1>15. CASE createdAtShipment /\ UNCHANGED deliveryVars
  BY <1>15, PackageOpens
<1>16. CASE /\ UNCHANGED deliveryVars
            /\ \/ RequestCancellation \/ acquireCancellationHold \/ \E restock \in BOOLEAN : Approve(restock)
               \/ Reject \/ Intercept \/ RetryRefund \/ stopFulfillment
  BY <1>16, RequestSteps
<1>17. CASE UNCHANGED exceptionVars
  <2>1. /\ UNCHANGED deliveryVars /\ UNCHANGED shipmentVars /\ UNCHANGED <<claim, cancel>>
        /\ UNCHANGED <<orderStatus, voStatus, completed, effects, settled>>
    BY <1>17 DEF exceptionVars, cancellationVars, deliveryVars, shipmentVars, cancelVars, lifecycleVars, moneyVars
  <2>2. LifecycleInv'
    BY <2>1, NothingMoves DEF ExceptionInv
  <2> QED BY <2>1, <2>2, PackageRests, PackageKeeps
<1> QED BY <1>1, <1>2, <1>3, <1>4, <1>5, <1>6, <1>7, <1>8, <1>9, <1>10, <1>11, <1>12, <1>13, <1>14, <1>15, <1>16, <1>17
        DEF ExceptionStep

LEMMA FenceFollows ==
  ASSUME ExceptionInv PROVE FenceHolds
BY DEF ExceptionInv, FenceInv, FenceHolds, SomeHanded

LEMMA RefundStopsRedelivery ==
  ASSUME ExceptionInv, dx.refund # 0 PROVE ~Redelivered(dx)
BY DEF ExceptionInv, CaseInv, CaseOf, SomeCase, NoCaseYet

LEMMA RedeliveryFollows ==
  ASSUME ExceptionInv PROVE RefundedIsNotRedelivered
<1>1. SUFFICES ASSUME dx.refund # 0, NEW n \in Attempts, n > dx.current PROVE FALSE
  BY DEF RefundedIsNotRedelivered
<1>2. ~Redelivered(dx) /\ dx.status # "none"
  BY <1>1, RefundStopsRedelivery DEF ExceptionInv, CaseInv, CaseOf, NoCaseYet
<1>3. dx.current \in Attempts /\ attempts \in Seq(AttemptRecords) /\ Len(attempts) \in Nat
  BY <1>2 DEF ExceptionInv, ShipmentInv, CaseInv, CaseOf, SomeCase
<1> QED BY <1>1, <1>2, <1>3 DEF Redelivered, Attempts

LEMMA ExceptionAlways == ExceptionSpec => []ExceptionInv
BY ExceptionStart, ExceptionSteps, PTL DEF ExceptionSpec

(* An open cancellation and a granted handover exclude each other, though  *)
(* the claim is Order's and the row is Shipment's: whatever the two        *)
(* services do between the grant and the shipment's transaction            *)
(* (ClaimHandover, MarkShipped, the cancellation's request and stop).      *)
THEOREM FenceAlwaysHolds == ExceptionSpec => []FenceHolds
BY ExceptionAlways, FenceFollows, PTL

(* A refund of the delivery case rules a redelivery out for good: no       *)
(* later attempt of the package is shipped, delivered or being handed      *)
(* over, also when facts, receipts, the buyer's answer and Shipment's      *)
(* answer arrive in another order (RefundBuyer, createReplacementAttempt,  *)
(* ApplyShipmentException).                                                *)
THEOREM RefundedNeverRedelivered == ExceptionSpec => []RefundedIsNotRedelivered
BY ExceptionAlways, RedeliveryFollows, PTL

(* With cases open, packages refused and sent again, the parent order      *)
(* still never runs ahead of its packages and no completed sale misses the *)
(* ledger (recomputeOrderStatus, enqueueSettlement, the case's refund).    *)
THEOREM PackagesDecideWithCases == ExceptionSpec => []PackagesDecideOrder
<1>1. ExceptionInv => PackagesDecideOrder
  BY LifecycleDecides DEF ExceptionInv
<1> QED BY <1>1, ExceptionAlways, PTL

\* What is left of a vendor order is asked for, or nothing is.
LEMMA RestAsked ==
  ASSUME SumsOK, NEW reason \in Reasons, NEW es, refunded' = refunded,
         createRefund(vo, refundableFor(vo), reason, es) \/ refunds' = refunds
  PROVE  RefundStep
<1>1. CASE refunds' = refunds
  BY <1>1 DEF RefundStep
<1>2. CASE createRefund(vo, refundableFor(vo), reason, es)
  <2>1. PICK amount : amount = refundableFor(vo)
    OBVIOUS
  <2>2. refundableFor(vo) \in Nat
    BY OneVendorOrder, RefundableIsLeft
  <2>3. amount \in Nat /\ amount <= refundableFor(vo)
    BY <2>1, <2>2
  <2> QED BY <1>2, <2>1, <2>3, OneVendorOrder, RefundAsked
<1> QED BY <1>1, <1>2

LEMMA ExceptionRefundStep ==
  ASSUME SumsOK, [ExceptionStep]_exceptionVars PROVE RefundStep
<1> USE DEF moneyVars, lifecycleVars, orderUnchanged, cancellationVars
<1>1. CASE acquireDeliveryHold \/ releaseDeliveryHoldEffect \/ Redeliver \/ CloseDelivered \/ AskReplacement
           \/ createReplacementAttempt \/ recoverDeliveryStock \/ (\E accept \in BOOLEAN : ConsentRedelivery(accept))
           \/ (\E actor \in {"vendor", "admin"}, c \in Conditions : RecordGoodsReceipt(actor, c))
  <2>1. UNCHANGED <<refunds, refunded>>
    BY <1>1 DEF acquireDeliveryHold, releaseDeliveryHoldEffect, Redeliver, CloseDelivered, AskReplacement,
                createReplacementAttempt, recoverDeliveryStock, ConsentRedelivery, RecordGoodsReceipt
  <2> QED BY <2>1 DEF RefundStep
<1>2. CASE RefundBuyer \/ RetryDeliveryRefund
  <2>1. /\ refunded' = refunded
        /\ createRefund(vo, refundableFor(vo), "delivery_exception", effects) \/ refunds' = refunds
    BY <1>2 DEF RefundBuyer, RetryDeliveryRefund, requestDeliveryRefund
  <2> QED BY <2>1, RestAsked DEF Reasons
<1>3. ASSUME NEW r \in RefundIds, DeliveryRefundAnswered(r) PROVE RefundStep
  <2>1. \/ \E es : payment[r] \in {"succeeded", "failed"} /\ ApplyRefundOutcome(r, payment[r], es)
        \/ RejectRefund(r) \/ RefundOutcomeArrives(r)
    BY <1>3 DEF DeliveryRefundAnswered, RefundAnswered
  <2> QED BY <2>1, OutcomeStep, RefundMovesStep
<1>4. ASSUME NEW e \in outbox, ExceptionArrives(e) \/ ShipmentFactArrives(e) PROVE RefundStep
  BY <1>4 DEF ExceptionArrives, ShipmentFactArrives, RefundStep
<1>5. ASSUME NEW n \in Attempts, deliveryHandoverAllowed(n) PROVE RefundStep
  BY <1>5 DEF deliveryHandoverAllowed, ClaimHandover, RefundStep
<1>6. CASE OrderAlone
  <2>1. CASE UpdateVendorOrderStatus(vo) \/ settleVendorOrder(vo)
    BY <2>1 DEF UpdateVendorOrderStatus, settleVendorOrder, RefundStep
  <2>2. CASE AdminRequestRefund(vo, refundableFor(vo))
    <3>1. createRefund(vo, refundableFor(vo), "dispute", effects) /\ refunded' = refunded
      BY <2>2 DEF AdminRequestRefund
    <3> QED BY <3>1, RestAsked DEF Reasons
  <2>3. CASE \E r \in RefundIds : SubmitRefund(r) \/ RecordSubmitted(r) \/ PaymentDecides(r)
    BY <2>3, RefundMovesStep
  <2> QED BY <1>6, <2>1, <2>2, <2>3 DEF OrderAlone
<1>7. CASE \/ createShipment \/ CreateOrGet \/ createdAtShipment \/ cancelShipmentEffect
           \/ RequestCancellation \/ acquireCancellationHold \/ \E restock \in BOOLEAN : Approve(restock)
           \/ Reject \/ Intercept \/ AskStop \/ interceptShipment \/ recoverCancelledStock
           \/ \E e \in outbox : Requeue(e) /\ orderUnchanged /\ UNCHANGED cancelVars
           \/ ShopMoves /\ orderUnchanged /\ UNCHANGED cancelVars
  <2>1. UNCHANGED <<refunds, refunded>>
    BY <1>7 DEF createShipment, CreateOrGet, createdAtShipment, cancelShipmentEffect, RequestCancellation,
                acquireCancellationHold, Approve, Reject, Intercept, AskStop, interceptShipment, recoverCancelledStock
  <2> QED BY <2>1 DEF RefundStep
<1>8. CASE RetryRefund \/ stopFulfillment
  <2>1. PICK es : /\ refunded' = refunded
                  /\ createRefund(vo, refundableFor(vo), "cancellation", es) \/ refunds' = refunds
    <3>1. CASE RetryRefund
      BY <3>1 DEF RetryRefund, requestCancellationRefund
    <3>2. CASE stopFulfillment
      BY <3>2 DEF stopFulfillment, requestCancellationRefund
    <3> QED BY <1>8, <3>1, <3>2
  <2> QED BY <2>1, RestAsked DEF Reasons
<1>9. CASE UNCHANGED exceptionVars
  BY <1>9 DEF exceptionVars, RefundStep
<1> QED BY <1>1, <1>2, <1>3, <1>4, <1>5, <1>6, <1>7, <1>8, <1>9 DEF ExceptionStep

(* With one package cancelled, refused, sent again and refunded by its     *)
(* case, its refunds still stay within what the buyer paid for it, since   *)
(* each asks for what the others leave (requestCancellationRefund,         *)
(* requestDeliveryRefund).                                                 *)
THEOREM RefundsWithinTotalWithCases == ExceptionSpec => []RefundsWithinTotal
<1>1. ExceptionInit => SumsOK
  BY NothingRefunded DEF ExceptionInit, PaidInit
<1>2. SumsOK /\ [ExceptionStep]_exceptionVars => SumsOK'
  BY ExceptionRefundStep, RefundStepKeeps
<1>3. SumsOK => RefundsWithinTotal
  BY DEF SumsOK
<1> QED BY <1>1, <1>2, <1>3, PTL DEF ExceptionSpec

-----------------------------------------------------------------------------
(* One shipment row, the files that prove a report and the carrier's       *)
(* decisions.                                                              *)

RowIsRecord ==
    row = [status |-> row.status, version |-> row.version, failed |-> row.failed, ref |-> row.ref,
           operation |-> row.operation, redacted |-> row.redacted]

KeptFiles == \A f \in Files : file[f] \in {"uploaded", "attached"} => f \in object

ConfirmedLoss == row.status = "lost" => \E f \in Files : file[f] = "attached"

\* A decision that moved the row is on the timeline.
CountedOnce == \A c \in 1 .. MaxRequests : applied[c] = 0 \/ (applied[c] = 1 /\ c \in keys)

RecordsInv ==
    /\ RowIsRecord /\ file \in [Files -> {"none", "uploaded", "attached", "deleted"}]
    /\ asked.files \subseteq Files /\ (asked.op = "lost" => asked.files # {})
    /\ asked = None \/ asked.op \in {"returned", "lost"}
    /\ KeptFiles /\ ConfirmedLoss
    /\ applied \in [1 .. MaxRequests -> Nat] /\ CountedOnce

\* A step of the row alone, that does not declare it lost.
LEMMA RowMoves ==
  ASSUME RecordsInv, UNCHANGED <<asked, file, object, keys, applied>>, RowIsRecord',
         row'.status = "lost" => row.status = "lost"
  PROVE  RecordsInv'
<1>1. ConfirmedLoss' /\ KeptFiles' /\ CountedOnce'
  BY DEF RecordsInv, ConfirmedLoss, KeptFiles, CountedOnce
<1> QED BY <1>1 DEF RecordsInv

LEMMA Transitioned ==
  ASSUME RowIsRecord, NEW to, NEW change, Transition(to, change),
         change = row \/ \E ref, operation : change = [row EXCEPT !.ref = ref, !.operation = operation]
  PROVE  RowIsRecord' /\ row'.status = to
<1>1. PICK c : c = change
  OBVIOUS
<1>2. c = [status |-> row.status, version |-> row.version, failed |-> row.failed, ref |-> c.ref,
           operation |-> c.operation, redacted |-> row.redacted]
  BY <1>1 DEF RowIsRecord
<1>3. row' = [c EXCEPT !.status = to, !.version = row.version + 1]
  BY <1>1 DEF Transition
<1> QED BY <1>2, <1>3 DEF RowIsRecord

LEMMA PeopleAct ==
  ASSUME RecordsInv, Act PROVE RecordsInv'
<1>1. RowIsRecord /\ UNCHANGED <<asked, file, object, keys, applied>>
  BY DEF Act, RecordsInv
<1>2. CASE RecordMarkReady \/ RecordMarkDelivered \/ MarkReturned
  <2>1. PICK to \in {"ready_to_ship", "delivered", "returned"} : Transition(to, row)
    BY <1>2 DEF RecordMarkReady, RecordMarkDelivered, MarkReturned
  <2>2. RowIsRecord' /\ row'.status = to
    BY <1>1, <2>1, Transitioned
  <2> QED BY <1>1, <2>1, <2>2, RowMoves
<1>3. CASE RecordMarkShipped \/ UpdateTracking \/ RecordRecordFailedAttempt
  <2>1. RowIsRecord' /\ row'.status \in {"shipped", row.status}
    BY <1>1, <1>3 DEF RecordMarkShipped, UpdateTracking, RecordRecordFailedAttempt, RowIsRecord
  <2> QED BY <1>1, <2>1, RowMoves
<1>4. ASSUME NEW accepted \in BOOLEAN, RecordApplyInterception(accepted) PROVE RecordsInv'
  <2>1. RowIsRecord' /\ row'.status \in {"cancelled", "shipped"}
    BY <1>1, <1>4 DEF RecordApplyInterception, RowIsRecord
  <2> QED BY <1>1, <2>1, RowMoves
<1> QED BY <1>2, <1>3, <1>4 DEF Act

LEMMA FailureReported ==
  ASSUME RecordsInv, RecordReportFailure PROVE RecordsInv'
<1>1. /\ asked' = None /\ asked.op \in {"returned", "lost"} /\ asked.files \subseteq Files
      /\ \A f \in asked.files : file[f] = "uploaded"
      /\ file' = [f \in Files |-> IF f \in asked.files THEN "attached" ELSE file[f]]
      /\ UNCHANGED <<object, keys, applied>> /\ RowIsRecord /\ Transition(asked.op, row)
  BY DEF RecordReportFailure, RecordsInv, Attachable
<1>2. RowIsRecord' /\ row'.status = asked.op
  BY <1>1, Transitioned
<1>3. file' \in [Files -> {"none", "uploaded", "attached", "deleted"}] /\ KeptFiles'
  BY <1>1 DEF RecordsInv, KeptFiles
<1>4. ConfirmedLoss'
  BY <1>1, <1>2 DEF RecordsInv, ConfirmedLoss
<1>5. asked'.files = {} /\ asked'.op = "none"
  BY <1>1 DEF None
<1> QED BY <1>1, <1>2, <1>3, <1>4, <1>5 DEF RecordsInv, CountedOnce

LEMMA CarrierDecides ==
  ASSUME RecordsInv, NEW e \in found, NEW accepted \in BOOLEAN, DecisionApplied(e, accepted)
  PROVE  RecordsInv'
<1>1. UNCHANGED <<asked, file, object>> /\ keys' = keys \cup {e.ref}
  BY DEF DecisionApplied
<1>2. CASE UNCHANGED <<row, applied>>
  BY <1>1, <1>2 DEF RecordsInv, CountedOnce, KeptFiles, ConfirmedLoss, RowIsRecord
<1>3. CASE RecordApplyInterception(accepted) /\ applied' = [applied EXCEPT ![e.ref] = @ + 1] /\ e.ref \notin keys
  <2>1. RowIsRecord' /\ row'.status \in {"cancelled", "shipped"}
    BY <1>3 DEF RecordApplyInterception, RowIsRecord, RecordsInv
  <2>2. applied' \in [1 .. MaxRequests -> Nat] /\ CountedOnce'
    <3>1. PICK k : k = e.ref
      OBVIOUS
    <3>2. applied \in [1 .. MaxRequests -> Nat] /\ applied' = [applied EXCEPT ![k] = @ + 1] /\ keys' = keys \cup {k} /\ k \notin keys
      BY <1>1, <1>3, <3>1 DEF RecordsInv
    <3>3. applied' \in [1 .. MaxRequests -> Nat]
      <4>1. \A c \in 1 .. MaxRequests : applied'[c] \in Nat
        BY <3>2
      <4> QED BY <3>2, <4>1
    <3>4. ASSUME NEW c \in 1 .. MaxRequests PROVE applied'[c] = 0 \/ (applied'[c] = 1 /\ c \in keys')
      <4>1. applied[c] = 0 \/ (applied[c] = 1 /\ c \in keys)
        BY DEF RecordsInv, CountedOnce
      <4> QED BY <3>2, <4>1
    <3> QED BY <3>3, <3>4 DEF CountedOnce
  <2>3. ConfirmedLoss' /\ KeptFiles'
    BY <1>1, <2>1 DEF RecordsInv, ConfirmedLoss, KeptFiles
  <2> QED BY <1>1, <2>1, <2>2, <2>3 DEF RecordsInv
<1> QED BY <1>2, <1>3 DEF DecisionApplied, Seen

LEMMA FilesMove ==
  ASSUME RecordsInv, NEW f \in Files, Put(f) \/ Create(f) \/ CreateFails(f) \/ DayPasses(f) \/ MarkDeleted(f)
  PROVE  RecordsInv'
<1>1. UNCHANGED <<row, asked, keys, applied>>
  BY DEF Put, Create, CreateFails, DayPasses, MarkDeleted, evidenceOnly
<1>2. file' \in [Files -> {"none", "uploaded", "attached", "deleted"}] /\ KeptFiles'
  BY DEF Put, Create, CreateFails, DayPasses, MarkDeleted, StillUploaded, RecordsInv, KeptFiles
<1>3. \A g \in Files : file[g] = "attached" => file'[g] = "attached"
  BY DEF Put, Create, CreateFails, DayPasses, MarkDeleted, StillUploaded, RecordsInv
<1>4. ConfirmedLoss' /\ CountedOnce'
  BY <1>1, <1>3 DEF RecordsInv, ConfirmedLoss, CountedOnce
<1> QED BY <1>1, <1>2, <1>4 DEF RecordsInv, RowIsRecord

LEMMA RecordsStep ==
  ASSUME RecordsInv, [RecordsNext]_recordVars PROVE RecordsInv'
<1>1. CASE Act
  BY <1>1, PeopleAct
<1>2. CASE RecordReportFailure
  BY <1>2, FailureReported
<1>3. CASE Refused
  <2>1. asked'.files = {} /\ asked'.op = "none" /\ asked' = None /\ UNCHANGED <<row, keys, applied, file, object>>
    BY <1>3 DEF Refused, None
  <2> QED BY <2>1 DEF RecordsInv, RowIsRecord, KeptFiles, ConfirmedLoss, CountedOnce
<1>4. ASSUME NEW kind \in {"returned", "lost"}, NEW cited \in SUBSET Files, Reports(kind, cited) PROVE RecordsInv'
  BY <1>4 DEF Reports, RecordsInv, RowIsRecord, KeptFiles, ConfirmedLoss, CountedOnce
<1>5. CASE AsksCarrier \/ Orphans \/ \E nth \in 1 .. 2 : DecisionArrives(nth)
  <2>1. UNCHANGED <<row, asked, keys, applied, file, object>>
    BY <1>5 DEF AsksCarrier, Orphans, DecisionArrives, evidenceOnly
  <2> QED BY <2>1, RowMoves DEF RecordsInv, RowIsRecord
<1>6. CASE RecordCancelForVendorOrder
  <2>1. Transition("cancelled", row) /\ UNCHANGED <<asked, keys, applied, file, object>>
    BY <1>6 DEF RecordCancelForVendorOrder
  <2>2. RowIsRecord' /\ row'.status = "cancelled"
    BY <2>1, Transitioned DEF RecordsInv
  <2> QED BY <2>1, <2>2, RowMoves
<1>7. CASE RedactAddresses
  <2>1. RowIsRecord' /\ row'.status = row.status /\ UNCHANGED <<asked, keys, applied, file, object>>
    BY <1>7 DEF RedactAddresses, rowOnly, RecordsInv, RowIsRecord
  <2> QED BY <2>1, RowMoves
<1>8. ASSUME NEW operation \in BOOLEAN, InterceptionRequested(operation) PROVE RecordsInv'
  <2>1. UNCHANGED <<asked, keys, applied, file, object>>
    BY <1>8 DEF InterceptionRequested
  <2>2. RowIsRecord' /\ row'.status \in {row.status, "interception_requested"}
    BY <1>8, Transitioned DEF InterceptionRequested, RecordsInv, RowIsRecord
  <2> QED BY <2>1, <2>2, RowMoves
<1>9. ASSUME NEW e \in found, NEW accepted \in BOOLEAN, DecisionApplied(e, accepted) PROVE RecordsInv'
  BY <1>9, CarrierDecides
<1>10. ASSUME NEW f \in Files, Put(f) \/ Create(f) \/ CreateFails(f) \/ DayPasses(f) \/ MarkDeleted(f) PROVE RecordsInv'
  BY <1>10, FilesMove
<1>11. CASE UNCHANGED recordVars
  <2>1. UNCHANGED <<row, asked, keys, applied, file, object>>
    BY <1>11 DEF recordVars
  <2> QED BY <2>1, RowMoves DEF RecordsInv, RowIsRecord
<1> QED BY <1>1, <1>2, <1>3, <1>4, <1>5, <1>6, <1>7, <1>8, <1>9, <1>10, <1>11 DEF RecordsNext

LEMMA RecordsStart ==
  ASSUME RecordsInit PROVE RecordsInv
<1>1. RowIsRecord /\ row.status = "pending" /\ asked.files = {} /\ asked.op = "none"
  BY DEF RecordsInit, NewShipment, RowIsRecord, None
<1> QED BY <1>1 DEF RecordsInit, RecordsInv, KeptFiles, ConfirmedLoss, CountedOnce

LEMMA RecordsAlways == RecordsSpec => []RecordsInv
BY RecordsStart, RecordsStep, PTL DEF RecordsSpec

(* A package is declared lost only with the carrier's confirmation         *)
(* attached, and no cited file leaves the bucket, whatever the cleaner had *)
(* listed before (ReportFailure, attachEvidence, CleanEvidence).           *)
THEOREM LossAlwaysProven == RecordsSpec => []LostIsProven
<1>1. RecordsInv => LostIsProven
  BY DEF RecordsInv, ConfirmedLoss, KeptFiles, LostIsProven
<1> QED BY <1>1, RecordsAlways, PTL

(* The carrier's decision on one interception moves the shipment at most   *)
(* once, however often it is sent and however late it gets the row's lock  *)
(* (ProcessCarrierWebhook).                                                *)
THEOREM DecisionsAppliedOnce == RecordsSpec => []EachDecisionAppliedOnce
<1>1. RecordsInv => EachDecisionAppliedOnce
  BY DEF RecordsInv, CountedOnce, EachDecisionAppliedOnce
<1> QED BY <1>1, RecordsAlways, PTL

-----------------------------------------------------------------------------
(* Returns and their refunds.                                              *)

IsReturn(q) ==
    q = [status |-> q.status, quantity |-> q.quantity, auth |-> q.auth, dest |-> q.dest, shipping |-> q.shipping,
         parcelSet |-> q.parcelSet, receipt |-> q.receipt, sellable |-> q.sellable, disputed |-> q.disputed,
         refunds |-> q.refunds]

\* Refunds that gave no money and never will.
Over(is) == \A i \in is : refunds[i].status \in {"failed", "rejected"}

OnlyLive(q, live) == \E i \in q.refunds : refunds[i].status \in live /\ Over(q.refunds \ {i})

\* What the status of a return says of its refunds.
ReturnOK(q) ==
    /\ IsReturn(q) /\ q.quantity \in Nat /\ q.refunds \subseteq RefundIds /\ q.status \in DOMAIN returnTransitions
    /\ q.status \notin {"refund_pending", "refunded", "refund_failed"} => q.refunds = {}
    /\ q.status = "refund_failed" => Over(q.refunds)
    /\ q.status = "refund_pending" => OnlyLive(q, {"requested", "submitted"})
    /\ q.status = "refunded" => OnlyLive(q, {"succeeded"})

ReturnsInv ==
    /\ refunds \in Seq(RefundRecords) /\ rr = [r \in ReturnIds |-> rr[r]]
    /\ \A r \in ReturnIds : ReturnOK(rr[r])
    /\ \A r, s \in ReturnIds : r # s => rr[r].refunds \cap rr[s].refunds = {}

LEMMA ReturnsRest ==
  ASSUME ReturnsInv, UNCHANGED <<rr, refunds>> PROVE ReturnsInv'
BY DEF ReturnsInv, ReturnOK, IsReturn, Over, OnlyLive, RefundIds

\* One return moves, its refunds stay.
LEMMA ReturnChanges ==
  ASSUME ReturnsInv, refunds' = refunds, NEW r \in ReturnIds, NEW q, rr' = [rr EXCEPT ![r] = q],
         ReturnOK(q), q.refunds = rr[r].refunds
  PROVE  ReturnsInv'
<1>1. \A s \in ReturnIds : rr'[s] = IF s = r THEN q ELSE rr[s]
  BY DEF ReturnsInv
<1>2. \A s \in ReturnIds : ReturnOK(rr'[s]) /\ rr'[s].refunds = rr[s].refunds
  BY <1>1 DEF ReturnsInv
<1>3. rr' = [s \in ReturnIds |-> rr'[s]]
  BY DEF ReturnsInv
<1>4. \A s \in ReturnIds : ReturnOK(rr[s])'
  BY <1>2 DEF ReturnOK, IsReturn, Over, OnlyLive, RefundIds
<1> QED BY <1>2, <1>3, <1>4 DEF ReturnsInv

\* The step of a return that has no refund yet.
LEMMA ReturnGoesOn ==
  ASSUME ReturnsInv, refunds' = refunds, NEW r \in ReturnIds, NEW q, rr' = [rr EXCEPT ![r] = q],
         IsReturn(q), q.quantity \in Nat, q.refunds = rr[r].refunds,
         \/ q.status = rr[r].status
         \/ /\ rr[r].status \notin {"refund_pending", "refunded", "refund_failed"}
            /\ q.status \in DOMAIN returnTransitions \ {"refund_pending", "refunded", "refund_failed"}
  PROVE  ReturnsInv'
<1>1. ReturnOK(q)
  BY DEF ReturnsInv, ReturnOK, Over, OnlyLive
<1> QED BY <1>1, ReturnChanges

LEMMA ReturnStatuses ==
  /\ DOMAIN returnTransitions = {"requested", "vendor_confirmed", "approved", "received", "refund_pending",
                                 "refund_failed", "rejected", "refunded", "none"}
  /\ \A s \in DOMAIN returnTransitions : CanTransitionReturn(s, "refund_pending") => s \in {"approved", "received", "refund_failed"}
  /\ \A s \in DOMAIN returnTransitions, to \in {"vendor_confirmed", "approved", "rejected"} :
        CanTransitionReturn(s, to) => s \in {"requested", "vendor_confirmed"}
  /\ \A s \in DOMAIN returnTransitions : CanTransitionReturn(s, "received") => s = "approved"
BY DEF returnTransitions, CanTransitionReturn

LEMMA OneSeller == soldBy \in VendorOrders
BY OrderAssumption DEF soldBy

\* A refund is asked: the earlier ones keep their place.
LEMMA RefundComes ==
  ASSUME refunds \in Seq(RefundRecords), NEW v \in VendorOrders, NEW amount \in Nat, NEW reason \in Reasons, NEW es,
         createRefund(v, amount, reason, es)
  PROVE  /\ refunds' \in Seq(RefundRecords) /\ RefundIds' = RefundIds \cup {Len(refunds) + 1} /\ Len(refunds) + 1 \notin RefundIds
         /\ \A i \in RefundIds : refunds'[i] = refunds[i]
         /\ refunds'[Len(refunds) + 1].status = "requested"
<1>1. PICK rec : rec = [vo |-> v, amount |-> amount, reason |-> reason, status |-> "requested"] /\ refunds' = Append(refunds, rec)
  BY DEF createRefund
<1>2. rec \in RefundRecords /\ rec.status = "requested"
  BY <1>1 DEF RefundRecords, RefundStatuses
<1> QED BY <1>1, <1>2 DEF RefundIds

LEMMA RefundMoved ==
  ASSUME refunds \in Seq(RefundRecords), NEW i \in RefundIds, NEW to \in {"submitted", "succeeded", "failed", "rejected"},
         refunds' = [refunds EXCEPT ![i].status = to]
  PROVE  /\ refunds' \in Seq(RefundRecords) /\ RefundIds' = RefundIds
         /\ \A j \in RefundIds : refunds'[j].status = IF j = i THEN to ELSE refunds[j].status
<1> DEFINE old == refunds[i]
           rec == [old EXCEPT !.status = to]
<1>1. refunds' = [refunds EXCEPT ![i] = rec]
  OBVIOUS
<1>2. old \in RefundRecords
  BY DEF RefundIds
<1> HIDE DEF old
<1>3. rec \in RefundRecords /\ rec.status = to
  BY <1>2 DEF RefundRecords, RefundStatuses
<1> HIDE DEF rec
<1> QED BY <1>1, <1>3, ExceptSeq DEF RefundIds

\* Returns that keep their refunds, none of which moved.
LEMMA ReturnStays ==
  ASSUME NEW q, ReturnOK(q), RefundIds \subseteq RefundIds', \A i \in q.refunds : refunds'[i].status = refunds[i].status
  PROVE  ReturnOK(q)'
BY DEF ReturnOK, IsReturn, Over, OnlyLive

\* A return whose earlier refunds are over asks for the next one.
LEMMA ReturnRefundAsked ==
  ASSUME ReturnsInv, NEW r \in ReturnIds, NEW ret, ReturnOK(ret), ret.refunds = rr[r].refunds, NEW es,
         requestReturnRefund(r, ret, es)
  PROVE  ReturnsInv'
<1>0. PICK new : new = Len(refunds) + 1
  OBVIOUS
<1>1. CanTransitionReturn(ret.status, "refund_pending") /\ createRefund(soldBy, ret.quantity, "return", es)
  BY DEF requestReturnRefund
<1>2. /\ refunds' \in Seq(RefundRecords) /\ RefundIds' = RefundIds \cup {new} /\ new \notin RefundIds
      /\ \A i \in RefundIds : refunds'[i] = refunds[i]
      /\ refunds'[new].status = "requested"
  BY <1>0, <1>1, OneSeller, RefundComes DEF ReturnsInv, ReturnOK, Reasons
<1>3. Over(ret.refunds) /\ ret.refunds \subseteq RefundIds /\ IsReturn(ret) /\ ret.quantity \in Nat
  BY <1>1, ReturnStatuses DEF ReturnOK, Over
<1>4. PICK q : q = [ret EXCEPT !.refunds = @ \cup {new}, !.status = "refund_pending"] /\ rr' = [rr EXCEPT ![r] = q]
  <2>1. PICK mid : mid = [ret EXCEPT !.refunds = @ \cup {new}]
    OBVIOUS
  <2>2. rr' = [rr EXCEPT ![r] = [mid EXCEPT !.status = "refund_pending"]]
    BY <1>0, <2>1 DEF requestReturnRefund, MoveReturn
  <2>3. [mid EXCEPT !.status = "refund_pending"] = [ret EXCEPT !.refunds = @ \cup {new}, !.status = "refund_pending"]
    BY <2>1
  <2> QED BY <2>2, <2>3
<1>5. IsReturn(q) /\ q.quantity = ret.quantity /\ q.refunds = ret.refunds \cup {new} /\ q.status = "refund_pending"
  BY <1>3, <1>4 DEF IsReturn
<1>6. ReturnOK(q)'
  <2>1. q.refunds \ {new} = ret.refunds
    BY <1>2, <1>3, <1>5
  <2>2. Over(q.refunds \ {new})'
    BY <1>2, <1>3, <2>1 DEF Over
  <2>3. OnlyLive(q, {"requested", "submitted"})'
    BY <1>2, <1>5, <2>2 DEF OnlyLive
  <2> QED BY <1>2, <1>3, <1>5, <2>3, ReturnStatuses DEF ReturnOK, IsReturn
<1>7. \A s \in ReturnIds : rr'[s] = IF s = r THEN q ELSE rr[s]
  BY <1>4 DEF ReturnsInv
<1>8. ASSUME NEW s \in ReturnIds, s # r PROVE ReturnOK(rr[s])'
  <2>1. ReturnOK(rr[s]) /\ rr'[s] = rr[s]
    BY <1>7, <1>8 DEF ReturnsInv
  <2>2. PICK o : o = rr[s]
    OBVIOUS
  <2>3. \A i \in o.refunds : refunds'[i].status = refunds[i].status
    BY <1>2, <2>1, <2>2 DEF ReturnOK
  <2>4. ReturnOK(o)'
    BY <1>2, <2>1, <2>2, <2>3, ReturnStays
  <2> QED BY <2>1, <2>2, <2>4
<1>9. \A s \in ReturnIds : ReturnOK(rr[s])'
  BY <1>6, <1>7, <1>8
<1>10. \A s, t \in ReturnIds : s # t => rr'[s].refunds \cap rr'[t].refunds = {}
  <2>1. \A s \in ReturnIds : rr[s].refunds \subseteq RefundIds
    BY DEF ReturnsInv, ReturnOK
  <2> QED BY <1>2, <1>5, <1>7, <2>1 DEF ReturnsInv
<1>11. rr' = [s \in ReturnIds |-> rr'[s]]
  BY <1>4 DEF ReturnsInv
<1> QED BY <1>2, <1>9, <1>10, <1>11 DEF ReturnsInv

\* No return moves; refunds may come or be submitted.
LEMMA ReturnsStay ==
  ASSUME ReturnsInv, rr' = rr, refunds' \in Seq(RefundRecords), RefundIds \subseteq RefundIds',
         \A r \in ReturnIds : \A i \in rr[r].refunds : refunds'[i].status = refunds[i].status
  PROVE  ReturnsInv'
<1>1. ASSUME NEW s \in ReturnIds PROVE ReturnOK(rr[s])'
  <2>1. PICK o : o = rr[s]
    OBVIOUS
  <2>2. ReturnOK(o)'
    BY <2>1, ReturnStays DEF ReturnsInv
  <2> QED BY <2>1, <2>2
<1> QED BY <1>1 DEF ReturnsInv

LEMMA RefundSubmitted ==
  ASSUME ReturnsInv, rr' = rr, NEW i \in RefundIds, refunds[i].status = "requested",
         refunds' = [refunds EXCEPT ![i].status = "submitted"]
  PROVE  ReturnsInv'
<1>1. /\ refunds' \in Seq(RefundRecords) /\ RefundIds' = RefundIds
      /\ \A j \in RefundIds : refunds'[j].status = IF j = i THEN "submitted" ELSE refunds[j].status
  BY RefundMoved DEF ReturnsInv
<1>2. ASSUME NEW s \in ReturnIds PROVE ReturnOK(rr[s])'
  <2>1. PICK o : o = rr[s]
    OBVIOUS
  <2>2. ReturnOK(o)
    BY <2>1 DEF ReturnsInv
  <2>3. \A is \in SUBSET RefundIds : Over(is) => Over(is)'
    BY <1>1 DEF Over
  <2>4. OnlyLive(o, {"requested", "submitted"}) => OnlyLive(o, {"requested", "submitted"})'
    BY <1>1, <2>2, <2>3 DEF OnlyLive, ReturnOK
  <2>5. OnlyLive(o, {"succeeded"}) => OnlyLive(o, {"succeeded"})'
    BY <1>1, <2>2, <2>3 DEF OnlyLive, ReturnOK
  <2>6. ReturnOK(o)'
    BY <1>1, <2>2, <2>3, <2>4, <2>5 DEF ReturnOK, IsReturn
  <2> QED BY <2>1, <2>6
<1> QED BY <1>1, <1>2 DEF ReturnsInv

\* The outcome of a refund, and the return it belongs to.
LEMMA OutcomeFollowed ==
  ASSUME ReturnsInv, NEW i \in RefundIds, NEW to \in {"succeeded", "failed", "rejected"},
         refunds[i].status \in {"requested", "submitted"}, refunds' = [refunds EXCEPT ![i].status = to],
         NEW owner, owner = {r \in ReturnIds : i \in rr[r].refunds},
         IF owner = {} THEN rr' = rr
         ELSE \E r \in owner : moveReturn(r, IF to = "succeeded" THEN "refunded" ELSE "refund_failed")
  PROVE  ReturnsInv'
<1>1. /\ refunds' \in Seq(RefundRecords) /\ RefundIds' = RefundIds
      /\ \A j \in RefundIds : refunds'[j].status = IF j = i THEN to ELSE refunds[j].status
  <2>1. refunds \in Seq(RefundRecords) /\ to \in {"submitted", "succeeded", "failed", "rejected"}
    BY DEF ReturnsInv
  <2> QED BY ONLY <2>1, i \in RefundIds, refunds' = [refunds EXCEPT ![i].status = to], RefundMoved
<1>2. ASSUME owner = {} PROVE ReturnsInv'
  <2>1. \A r \in ReturnIds : \A j \in rr[r].refunds : j \in RefundIds /\ j # i
    BY <1>2 DEF ReturnsInv, ReturnOK
  <2> QED BY <1>1, <1>2, <2>1, ReturnsStay
<1>3. ASSUME NEW r \in owner, NEW next, next = IF to = "succeeded" THEN "refunded" ELSE "refund_failed", moveReturn(r, next)
      PROVE  ReturnsInv'
  <2>1. PICK o : o = rr[r]
    OBVIOUS
  <2>2. r \in ReturnIds /\ ReturnOK(o) /\ i \in o.refunds
    BY <2>1 DEF ReturnsInv
  <2>3. o.status = "refund_pending" /\ Over(o.refunds \ {i})
    BY <2>2, ReturnStatuses DEF ReturnOK, Over, OnlyLive
  <2>4. PICK q : q = [o EXCEPT !.status = next] /\ rr' = [rr EXCEPT ![r] = q]
    BY <1>3, <2>1, <2>3 DEF moveReturn, MoveReturn
  <2>5. IsReturn(q) /\ q.quantity = o.quantity /\ q.refunds = o.refunds /\ q.status = next
    BY <2>2, <2>4 DEF IsReturn, ReturnOK
  <2>6. Over(q.refunds \ {i})' /\ q.refunds \subseteq RefundIds
    BY <1>1, <2>2, <2>3, <2>5 DEF Over, ReturnOK
  <2>7. ReturnOK(q)'
    <3>1. CASE to = "succeeded"
      <4>1. OnlyLive(q, {"succeeded"})'
        BY <1>1, <2>2, <2>5, <2>6, <3>1 DEF OnlyLive
      <4> QED BY <1>1, <1>3, <2>2, <2>5, <2>6, <3>1, <4>1, ReturnStatuses DEF ReturnOK, IsReturn
    <3>2. CASE to # "succeeded"
      <4>1. Over(q.refunds)'
        BY <1>1, <2>6, <3>2 DEF Over
      <4> QED BY <1>1, <1>3, <2>2, <2>5, <2>6, <3>2, <4>1, ReturnStatuses DEF ReturnOK, IsReturn
    <3> QED BY <3>1, <3>2
  <2>8. \A s \in ReturnIds : rr'[s] = IF s = r THEN q ELSE rr[s]
    BY <2>4 DEF ReturnsInv
  <2>9. ASSUME NEW s \in ReturnIds, s # r PROVE ReturnOK(rr[s])'
    <3>1. PICK p : p = rr[s]
      OBVIOUS
    <3>2. ReturnOK(p) /\ rr'[s] = p /\ i \notin p.refunds
      BY <2>1, <2>2, <2>8, <2>9, <3>1 DEF ReturnsInv
    <3>3. \A j \in p.refunds : refunds'[j].status = refunds[j].status
      BY <1>1, <3>2 DEF ReturnOK
    <3>4. ReturnOK(p)'
      BY <1>1, <3>2, <3>3, ReturnStays
    <3> QED BY <3>2, <3>4
  <2>10. \A s \in ReturnIds : ReturnOK(rr[s])' /\ rr'[s].refunds = rr[s].refunds
    BY <2>1, <2>5, <2>7, <2>8, <2>9
  <2>11. rr' = [s \in ReturnIds |-> rr'[s]]
    BY <2>4 DEF ReturnsInv
  <2> QED BY <1>1, <2>10, <2>11 DEF ReturnsInv
<1> QED BY <1>2, <1>3

\* Steps that keep the refunds: the request, its decision, the way back.
LEMMA ReturnDecided ==
  ASSUME ReturnsInv, NEW r \in ReturnIds,
         \/ VendorConfirmReturn(r) \/ AdminDecideReturn(r) \/ \E quantity \in 1 .. Units : CreateReturn(r, quantity)
  PROVE  ReturnsInv'
<1>1. refunds' = refunds
  BY DEF VendorConfirmReturn, AdminDecideReturn, CreateReturn, transitionReturn, lifecycleVars
<1>2. PICK o : o = rr[r]
  OBVIOUS
<1>3. ReturnOK(o)
  BY <1>2 DEF ReturnsInv
<1>4. ASSUME NEW to \in {"vendor_confirmed", "approved", "rejected"}, transitionReturn(r, to) PROVE ReturnsInv'
  <2>1. PICK q : q = [o EXCEPT !.status = to] /\ rr' = [rr EXCEPT ![r] = q]
    BY <1>2, <1>4 DEF transitionReturn, MoveReturn
  <2>2. IsReturn(q) /\ q.quantity = o.quantity /\ q.refunds = o.refunds /\ q.status = to
    BY <1>3, <2>1 DEF IsReturn, ReturnOK
  <2>3. o.status \in {"requested", "vendor_confirmed"}
    BY <1>2, <1>3, <1>4, ReturnStatuses DEF transitionReturn, ReturnOK
  <2> QED BY <1>1, <1>2, <1>3, <2>1, <2>2, <2>3, ReturnGoesOn, ReturnStatuses DEF ReturnOK
<1>5. ASSUME NEW quantity \in 1 .. Units, CreateReturn(r, quantity) PROVE ReturnsInv'
  <2>1. PICK q : q = [NoReturn EXCEPT !.status = "requested", !.quantity = quantity] /\ rr' = [rr EXCEPT ![r] = q]
    BY <1>5 DEF CreateReturn, NewReturnRow
  <2>2. IsReturn(q) /\ q.quantity = quantity /\ q.refunds = {} /\ q.status = "requested" /\ quantity \in Nat
    <3>1. PICK fresh : fresh = NoReturn
      OBVIOUS
    <3>2. IsReturn(fresh) /\ fresh.refunds = {}
      BY <3>1 DEF NoReturn, IsReturn
    <3>3. q = [fresh EXCEPT !.status = "requested", !.quantity = quantity]
      BY <2>1, <3>1
    <3>4. quantity \in Nat
      OBVIOUS
    <3> QED BY <3>2, <3>3, <3>4 DEF IsReturn
  <2>3. o.status = "none" /\ o.refunds = {}
    BY <1>2, <1>3, <1>5 DEF CreateReturn, ReturnOK
  <2> QED BY <1>1, <1>2, <2>1, <2>2, <2>3, ReturnGoesOn, ReturnStatuses
<1> QED BY <1>4, <1>5 DEF VendorConfirmReturn, AdminDecideReturn

LEMMA ReturnAuthorized ==
  ASSUME ReturnsInv, refunds' = refunds, NEW r \in ReturnIds, NEW ret, IsReturn(ret), ret.quantity \in Nat,
         ret.refunds = rr[r].refunds, authorizeReturnShipping(r, ret),
         \/ ret.status = rr[r].status
         \/ ret.status = "approved" /\ rr[r].status \in {"requested", "vendor_confirmed"}
  PROVE  ReturnsInv'
<1>1. PICK q : /\ rr' = [rr EXCEPT ![r] = q]
               /\ \/ q = [ret EXCEPT !.shipping = "destination_missing"]
                  \/ q = [ret EXCEPT !.auth = @ + 1, !.dest = destination, !.shipping = "awaiting_dispatch"]
  BY DEF authorizeReturnShipping, SaveShipping
<1>2. IsReturn(q) /\ q.quantity = ret.quantity /\ q.refunds = ret.refunds /\ q.status = ret.status
  BY <1>1 DEF IsReturn
<1> QED BY <1>1, <1>2, ReturnGoesOn, ReturnStatuses

LEMMA ReturnShips ==
  ASSUME ReturnsInv, NEW r \in ReturnIds,
         \/ AdminDecideReturnWithTerms(r) \/ AuthorizeReturnShipping(r) \/ ReportReturnDispatch(r) \/ MarkLost(r)
         \/ \E n \in 1 .. MaxDestinations : authorizeReturnShipment(r, n)
  PROVE  ReturnsInv'
<1>1. refunds' = refunds
  BY DEF AdminDecideReturnWithTerms, AuthorizeReturnShipping, ReportReturnDispatch, MarkLost, authorizeReturnShipment, moneyVars
<1>2. PICK o : o = rr[r]
  OBVIOUS
<1>3. ReturnOK(o)
  BY <1>2 DEF ReturnsInv
<1>4. CASE AdminDecideReturnWithTerms(r)
  <2>1. PICK ret : ret = [o EXCEPT !.status = "approved"] /\ authorizeReturnShipping(r, ret)
    BY <1>2, <1>4 DEF AdminDecideReturnWithTerms
  <2>2. IsReturn(ret) /\ ret.quantity = o.quantity /\ ret.refunds = o.refunds /\ ret.status = "approved"
    BY <1>3, <2>1 DEF IsReturn, ReturnOK
  <2>3. o.status \in {"requested", "vendor_confirmed"}
    BY <1>2, <1>3, <1>4, ReturnStatuses DEF AdminDecideReturnWithTerms, ReturnOK
  <2> QED BY <1>1, <1>2, <1>3, <2>1, <2>2, <2>3, ReturnAuthorized DEF ReturnOK
<1>5. CASE AuthorizeReturnShipping(r)
  <2>1. authorizeReturnShipping(r, o)
    BY <1>2, <1>5 DEF AuthorizeReturnShipping
  <2> QED BY <1>1, <1>2, <1>3, <2>1, ReturnAuthorized DEF ReturnOK
<1>6. CASE ReportReturnDispatch(r) \/ MarkLost(r)
  <2>1. PICK q : /\ rr' = [rr EXCEPT ![r] = q]
                 /\ \E shipping : q = [o EXCEPT !.shipping = shipping]
    BY <1>2, <1>6 DEF ReportReturnDispatch, MarkLost, SaveShipping
  <2>2. IsReturn(q) /\ q.quantity = o.quantity /\ q.refunds = o.refunds /\ q.status = o.status
    BY <1>3, <2>1 DEF IsReturn, ReturnOK
  <2> QED BY <1>1, <1>2, <1>3, <2>1, <2>2, ReturnGoesOn DEF ReturnOK
<1>7. ASSUME NEW n \in 1 .. MaxDestinations, authorizeReturnShipment(r, n) PROVE ReturnsInv'
  <2>1. CASE rr' = rr
    BY <1>1, <2>1, ReturnsRest
  <2>2. CASE SetReturnShipment(r)
    <3>1. PICK q : q = [o EXCEPT !.parcelSet = TRUE] /\ rr' = [rr EXCEPT ![r] = q]
      BY <1>2, <2>2 DEF SetReturnShipment
    <3>2. IsReturn(q) /\ q.quantity = o.quantity /\ q.refunds = o.refunds /\ q.status = o.status
      BY <1>3, <3>1 DEF IsReturn, ReturnOK
    <3> QED BY <1>1, <1>2, <1>3, <3>1, <3>2, ReturnGoesOn DEF ReturnOK
  <2> QED BY <1>7, <2>1, <2>2 DEF authorizeReturnShipment
<1> QED BY <1>4, <1>5, <1>6, <1>7

\* The goods are received, by the shop's record or by hand, or the record is corrected.
LEMMA GoodsReceived ==
  ASSUME ReturnsInv, NEW r \in ReturnIds,
         \/ \E s \in 0 .. Units : RecordReturnReceipt(r, s) \/ CorrectReturnReceipt(r, s)
         \/ \E restock \in BOOLEAN : MarkReturnReceived(r, restock)
  PROVE  ReturnsInv'
<1>1. PICK o : o = rr[r]
  OBVIOUS
<1>2. ReturnOK(o)
  BY <1>1 DEF ReturnsInv
<1>3. IsReturn(o) /\ o.quantity \in Nat
  BY <1>2 DEF ReturnOK
<1> DEFINE Received(ret) == /\ IsReturn(ret) /\ ret.quantity = o.quantity /\ ret.refunds = o.refunds
                            /\ ret.status = "received" /\ o.status \in {"approved", "received"}
                            /\ \/ \E es : requestReturnRefund(r, ret, es)
                               \/ rr' = [rr EXCEPT ![r] = ret] /\ refunds' = refunds
<1>4. PICK ret : Received(ret)
  <2>1. ASSUME NEW s \in 0 .. Units, RecordReturnReceipt(r, s) PROVE \E ret : Received(ret)
    <3>1. PICK mid : mid = [o EXCEPT !.receipt = "recorded", !.sellable = s, !.disputed = Disputed(r, s)]
      OBVIOUS
    <3>2. IsReturn(mid) /\ mid.quantity = o.quantity /\ mid.refunds = o.refunds
      BY <1>3, <3>1 DEF IsReturn
    <3>3. PICK ret : ret = [mid EXCEPT !.status = "received", !.shipping = IF @ = "none" THEN @ ELSE "received"]
      OBVIOUS
    <3>4. IsReturn(ret) /\ ret.quantity = o.quantity /\ ret.refunds = o.refunds /\ ret.status = "received"
      BY <3>2, <3>3 DEF IsReturn
    <3>5. ret = [AddReceipt(rr[r], s, Disputed(r, s)) EXCEPT !.status = "received",
                                                             !.shipping = IF @ = "none" THEN @ ELSE "received"]
      BY <1>1, <3>1, <3>3 DEF AddReceipt
    <3>6. (\E es : requestReturnRefund(r, ret, es)) \/ (rr' = [rr EXCEPT ![r] = ret] /\ refunds' = refunds)
      BY <2>1, <3>5 DEF RecordReturnReceipt
    <3>7. o.status = "approved"
      BY <1>1, <2>1 DEF RecordReturnReceipt
    <3> QED BY <3>4, <3>6, <3>7
  <2>2. ASSUME NEW s \in 0 .. Units, CorrectReturnReceipt(r, s) PROVE \E ret : Received(ret)
    <3>1. PICK ret : ret = [o EXCEPT !.sellable = s, !.disputed = Disputed(r, s)]
      OBVIOUS
    <3>2. o.status = "received"
      BY <1>1, <2>2 DEF CorrectReturnReceipt
    <3>3. IsReturn(ret) /\ ret.quantity = o.quantity /\ ret.refunds = o.refunds /\ ret.status = "received"
      BY <1>3, <3>1, <3>2 DEF IsReturn
    <3>4. ret = CorrectReceipt(rr[r], s, Disputed(r, s))
      BY <1>1, <3>1 DEF CorrectReceipt
    <3>5. (\E es : requestReturnRefund(r, ret, es)) \/ (rr' = [rr EXCEPT ![r] = ret] /\ refunds' = refunds)
      BY <2>2, <3>4 DEF CorrectReturnReceipt
    <3> QED BY <3>2, <3>3, <3>5
  <2>3. ASSUME NEW restock \in BOOLEAN, MarkReturnReceived(r, restock) PROVE \E ret : Received(ret)
    <3>1. PICK ret, sellable, es : ret = [o EXCEPT !.status = "received", !.sellable = sellable] /\ requestReturnRefund(r, ret, es)
      BY <1>1, <2>3 DEF MarkReturnReceived
    <3>2. IsReturn(ret) /\ ret.quantity = o.quantity /\ ret.refunds = o.refunds /\ ret.status = "received"
      BY <1>3, <3>1 DEF IsReturn
    <3>3. o.status = "approved"
      BY <1>1, <1>2, <2>3, ReturnStatuses DEF MarkReturnReceived, ReturnOK
    <3> QED BY <3>1, <3>2, <3>3
  <2> QED BY <2>1, <2>2, <2>3
<1>5. ReturnOK(ret)
  BY <1>2, <1>3, <1>4, ReturnStatuses DEF ReturnOK
<1> QED BY <1>1, <1>3, <1>4, <1>5, ReturnRefundAsked, ReturnChanges

\* An admin's refund, and the next one after a refund that failed.
LEMMA RefundAskedAgain ==
  ASSUME ReturnsInv, NEW r \in ReturnIds, DecideReturnShipping(r) \/ RetryReturnRefund(r)
  PROVE  ReturnsInv'
<1>1. PICK ret : ret = rr[r] /\ requestReturnRefund(r, ret, effects)
  BY DEF DecideReturnShipping, RetryReturnRefund
<1>2. ReturnOK(ret)
  BY <1>1 DEF ReturnsInv
<1> QED BY <1>1, <1>2, ReturnRefundAsked

LEMMA RefundsAnsweredReturns ==
  ASSUME ReturnsInv, NEW i \in RefundIds, ReturnRefundAnswered(i)
  PROVE  ReturnsInv'
<1> DEFINE owner == {r \in ReturnIds : i \in rr[r].refunds}
<1>1. CASE refunds' = refunds
  BY <1>1, ReturnsRest DEF ReturnRefundAnswered
<1>2. ASSUME NEW to \in {"succeeded", "failed", "rejected"}, CanApplyOutcome(refunds[i].status, to),
             refunds' = [refunds EXCEPT ![i].status = to], (to = "succeeded") <=> (payment[i] = "succeeded")
      PROVE  ReturnsInv'
  <2>1. refunds[i].status \in {"requested", "submitted"}
    BY <1>2 DEF CanApplyOutcome
  <2>2. refunds'[i].status = to
    <3>1. refunds \in Seq(RefundRecords) /\ to \in {"submitted", "succeeded", "failed", "rejected"}
      BY DEF ReturnsInv
    <3>2. refunds' = [refunds EXCEPT ![i].status = to]
      BY <1>2
    <3>3. \A j \in RefundIds : refunds'[j].status = IF j = i THEN to ELSE refunds[j].status
      BY ONLY <3>1, <3>2, i \in RefundIds, RefundMoved
    <3> QED BY <3>3
  <2>3. IF owner = {} THEN rr' = rr
        ELSE \E r \in owner : moveReturn(r, IF to = "succeeded" THEN "refunded" ELSE "refund_failed")
    BY <1>2, <2>1, <2>2 DEF ReturnRefundAnswered
  <2> HIDE DEF owner
  <2> QED BY <1>2, <2>1, <2>3, OutcomeFollowed DEF owner
<1>3. CASE RefundOutcomeArrives(i)
  BY <1>2, <1>3 DEF RefundOutcomeArrives, ApplyRefundOutcome
<1>4. CASE RejectRefund(i) /\ refunds' # refunds
  BY <1>2, <1>4 DEF RejectRefund, ApplyRefundOutcome
<1> QED BY <1>1, <1>3, <1>4 DEF ReturnRefundAnswered

LEMMA ReturnsStepKeeps ==
  ASSUME ReturnsInv, [ReturnsStep]_returnsVars PROVE ReturnsInv'
<1>1. CASE VerifyDestination
  BY <1>1, ReturnsRest DEF VerifyDestination, lifecycleVars
<1>2. ASSUME NEW r \in ReturnIds,
             \/ \E q \in 1 .. Units : CreateReturn(r, q)
             \/ VendorConfirmReturn(r) \/ AdminDecideReturn(r)
      PROVE  ReturnsInv'
  BY <1>2, ReturnDecided
<1>3. ASSUME NEW r \in ReturnIds,
             \/ AdminDecideReturnWithTerms(r) \/ AuthorizeReturnShipping(r) \/ ReportReturnDispatch(r) \/ MarkLost(r)
             \/ \E n \in 1 .. MaxDestinations : authorizeReturnShipment(r, n)
      PROVE  ReturnsInv'
  BY <1>3, ReturnShips
<1>4. ASSUME NEW r \in ReturnIds,
             \/ \E s \in 0 .. Units : RecordReturnReceipt(r, s) \/ CorrectReturnReceipt(r, s)
             \/ \E restock \in BOOLEAN : MarkReturnReceived(r, restock)
      PROVE  ReturnsInv'
  BY <1>4, GoodsReceived
<1>5. ASSUME NEW r \in ReturnIds, DecideReturnShipping(r) \/ RetryReturnRefund(r) PROVE ReturnsInv'
  BY <1>5, RefundAskedAgain
<1>6. ASSUME NEW r \in ReturnIds, restockReturn(r) \/ dispatchReturnShipment(r) \/ closeReturnShipment(r)
      PROVE  ReturnsInv'
  BY <1>6, ReturnsRest DEF restockReturn, dispatchReturnShipment, closeReturnShipment, moneyVars
<1>7. ASSUME NEW i \in RefundIds, ReturnRefundAnswered(i) PROVE ReturnsInv'
  BY <1>7, RefundsAnsweredReturns
<1>8. CASE Len(refunds) = 0 /\ AdminRequestRefund(soldBy, 1) /\ UNCHANGED returnVars
  <2>1. createRefund(soldBy, 1, "dispute", effects) /\ rr' = rr
    BY <1>8 DEF AdminRequestRefund, returnVars
  <2>2. /\ refunds' \in Seq(RefundRecords) /\ RefundIds \subseteq RefundIds'
        /\ \A i \in RefundIds : refunds'[i] = refunds[i]
    BY <2>1, OneSeller, RefundComes DEF ReturnsInv, Reasons
  <2> QED BY <2>1, <2>2, ReturnsStay DEF ReturnsInv, ReturnOK
<1>9. ASSUME NEW i \in RefundIds, SubmitRefund(i) \/ RecordSubmitted(i) \/ PaymentDecides(i), UNCHANGED returnVars
      PROVE  ReturnsInv'
  <2>1. rr' = rr
    BY <1>9 DEF returnVars
  <2>2. \/ refunds' = refunds
        \/ refunds[i].status = "requested" /\ refunds' = [refunds EXCEPT ![i].status = "submitted"]
    BY <1>9 DEF SubmitRefund, RecordSubmitted, PaymentDecides
  <2> QED BY <2>1, <2>2, ReturnsRest, RefundSubmitted
<1>10. CASE UNCHANGED returnsVars
  BY <1>10, ReturnsRest DEF returnsVars, returnVars, lifecycleVars
<1> QED BY <1>1, <1>2, <1>3, <1>4, <1>5, <1>6, <1>7, <1>8, <1>9, <1>10 DEF ReturnsStep

LEMMA ReturnsStart ==
  ASSUME ReturnsInit PROVE ReturnsInv
<1>1. refunds = <<>> /\ rr = [r \in ReturnIds |-> NoReturn]
  BY DEF ReturnsInit, CompletedInit, ReturnRowsInit
<1>2. PICK q : q = NoReturn
  OBVIOUS
<1>3. IsReturn(q) /\ q.quantity = 0 /\ q.refunds = {} /\ q.status = "none"
  BY <1>2 DEF NoReturn, IsReturn
<1>4. ReturnOK(q)
  BY <1>3, ReturnStatuses DEF ReturnOK
<1>5. refunds \in Seq(RefundRecords)
  BY <1>1
<1> QED BY <1>1, <1>2, <1>3, <1>4, <1>5 DEF ReturnsInv

LEMMA ReturnsAddUp ==
  ASSUME ReturnsInv PROVE OneRefundPerReturn
<1> SUFFICES ASSUME NEW r \in ReturnIds, NEW paid, paid = {i \in rr[r].refunds : refunds[i].status \in {"succeeded"}},
                    NEW open, open = {i \in rr[r].refunds : refunds[i].status \in {"requested", "submitted", "succeeded"}}
             PROVE  Cardinality(open) <= 1 /\ (rr[r].status = "refunded" <=> paid # {})
  BY DEF OneRefundPerReturn
<1>1. PICK q : q = rr[r] /\ ReturnOK(q)
  BY DEF ReturnsInv
<1>2. open = {} \/ \E i : open = {i}
  <2>1. CASE OnlyLive(q, {"requested", "submitted"}) \/ OnlyLive(q, {"succeeded"})
    <3>1. PICK i \in q.refunds : refunds[i].status \in {"requested", "submitted", "succeeded"} /\ Over(q.refunds \ {i})
      BY <2>1 DEF OnlyLive
    <3>2. open = {i}
      BY <1>1, <3>1 DEF Over
    <3> QED BY <3>2
  <2>2. CASE Over(q.refunds)
    BY <1>1, <2>2 DEF Over
  <2>3. CASE q.refunds = {}
    BY <1>1, <2>3
  <2> QED BY <1>1, <2>1, <2>2, <2>3 DEF ReturnOK
<1>3. Cardinality(open) <= 1
  <2>1. CASE open = {}
    <3>1. Cardinality(open) = 0
      BY <2>1, FS_EmptySet, Zenon
    <3> QED BY <3>1
  <2>2. ASSUME NEW i, open = {i} PROVE Cardinality(open) <= 1
    <3>1. Cardinality(open) = 1
      BY <2>2, FS_Singleton, Zenon
    <3> QED BY <3>1
  <2> QED BY <1>2, <2>1, <2>2
<1>4. q.status = "refunded" => paid # {}
  <2>1. SUFFICES ASSUME q.status = "refunded" PROVE paid # {}
    OBVIOUS
  <2>2. PICK i \in q.refunds : refunds[i].status \in {"succeeded"}
    BY <1>1, <2>1 DEF ReturnOK, OnlyLive
  <2>3. i \in paid
    BY <1>1, <2>2
  <2> QED BY <2>3
<1>5. q.status # "refunded" => paid = {}
  <2>1. CASE OnlyLive(q, {"requested", "submitted"})
    BY <1>1, <2>1 DEF Over, OnlyLive
  <2>2. CASE Over(q.refunds)
    BY <1>1, <2>2 DEF Over
  <2>3. CASE q.refunds = {}
    BY <1>1, <2>3
  <2> QED BY <1>1, <2>1, <2>2, <2>3 DEF ReturnOK
<1> QED BY <1>1, <1>3, <1>4, <1>5

(* A return is refunded once: through failed refunds, retries, corrected   *)
(* receipts and lost parcels at most one of its refunds is open or paid,   *)
(* and the return says "refunded" exactly when one was paid                *)
(* (requestReturnRefund, RetryReturnRefund, moveReturn).                   *)
THEOREM ReturnsRefundedOnce == ReturnsSpec => []OneRefundPerReturn
<1>1. ReturnsInv => OneRefundPerReturn
  BY ReturnsAddUp
<1> QED BY <1>1, ReturnsStart, ReturnsStepKeeps, PTL DEF ReturnsSpec
LEMMA ReturnsRefundStep ==
  ASSUME ReturnsInv, [ReturnsStep]_returnsVars PROVE RefundStep
<1> USE DEF moneyVars, lifecycleVars
<1>0. ASSUME NEW r \in ReturnIds, NEW ret, ret.quantity = rr[r].quantity, NEW es, requestReturnRefund(r, ret, es), refunded' = refunded
      PROVE  RefundStep
  <2>1. PICK amount \in Nat : amount = ret.quantity
    BY <1>0 DEF ReturnsInv, ReturnOK
  <2>2. createRefund(soldBy, amount, "return", es) /\ amount <= refundableFor(soldBy)
    BY <1>0, <2>1 DEF requestReturnRefund
  <2> QED BY <1>0, <2>2, OneSeller, RefundAsked DEF Reasons
<1>1. CASE VerifyDestination
  BY <1>1 DEF VerifyDestination, RefundStep
<1>2. ASSUME NEW r \in ReturnIds,
             \/ \E q \in 1 .. Units : CreateReturn(r, q)
             \/ VendorConfirmReturn(r) \/ AdminDecideReturn(r)
      PROVE  RefundStep
  BY <1>2 DEF CreateReturn, VendorConfirmReturn, AdminDecideReturn, transitionReturn, RefundStep
<1>3. ASSUME NEW r \in ReturnIds,
             \/ AdminDecideReturnWithTerms(r) \/ AuthorizeReturnShipping(r) \/ ReportReturnDispatch(r) \/ MarkLost(r)
             \/ \E n \in 1 .. MaxDestinations : authorizeReturnShipment(r, n)
      PROVE  RefundStep
  BY <1>3 DEF AdminDecideReturnWithTerms, AuthorizeReturnShipping, ReportReturnDispatch, MarkLost, authorizeReturnShipment, RefundStep
<1>4. ASSUME NEW r \in ReturnIds, NEW s \in 0 .. Units, RecordReturnReceipt(r, s) PROVE RefundStep
  <2>1. PICK o : o = rr[r] /\ IsReturn(o)
    BY DEF ReturnsInv, ReturnOK
  <2>2. PICK mid : mid = [o EXCEPT !.receipt = "recorded", !.sellable = s, !.disputed = Disputed(r, s)]
    OBVIOUS
  <2>3. IsReturn(mid) /\ mid.quantity = o.quantity
    BY <2>1, <2>2 DEF IsReturn
  <2>4. PICK ret : ret = [mid EXCEPT !.status = "received", !.shipping = IF @ = "none" THEN @ ELSE "received"]
    OBVIOUS
  <2>5. ret.quantity = o.quantity
    BY <2>3, <2>4 DEF IsReturn
  <2>6. ret = [AddReceipt(rr[r], s, Disputed(r, s)) EXCEPT !.status = "received", !.shipping = IF @ = "none" THEN @ ELSE "received"]
    BY <2>1, <2>2, <2>4 DEF AddReceipt
  <2>7. refunded' = refunded /\ (\/ \E es : requestReturnRefund(r, ret, es) \/ refunds' = refunds)
    BY <1>4, <2>6 DEF RecordReturnReceipt
  <2> QED BY <1>0, <2>1, <2>5, <2>7 DEF RefundStep
<1>5. ASSUME NEW r \in ReturnIds, NEW s \in 0 .. Units, CorrectReturnReceipt(r, s) PROVE RefundStep
  <2>1. PICK o : o = rr[r] /\ IsReturn(o)
    BY DEF ReturnsInv, ReturnOK
  <2>2. PICK ret : ret = [o EXCEPT !.sellable = s, !.disputed = Disputed(r, s)]
    OBVIOUS
  <2>3. ret.quantity = o.quantity
    BY <2>1, <2>2 DEF IsReturn
  <2>4. ret = CorrectReceipt(rr[r], s, Disputed(r, s))
    BY <2>1, <2>2 DEF CorrectReceipt
  <2>5. refunded' = refunded /\ (\/ \E es : requestReturnRefund(r, ret, es) \/ refunds' = refunds)
    BY <1>5, <2>4 DEF CorrectReturnReceipt
  <2> QED BY <1>0, <2>1, <2>3, <2>5 DEF RefundStep
<1>6. ASSUME NEW r \in ReturnIds, NEW restock \in BOOLEAN, MarkReturnReceived(r, restock) PROVE RefundStep
  <2>1. PICK o : o = rr[r] /\ IsReturn(o)
    BY DEF ReturnsInv, ReturnOK
  <2>2. PICK ret, sellable, es : ret = [o EXCEPT !.status = "received", !.sellable = sellable] /\ requestReturnRefund(r, ret, es)
    BY <1>6, <2>1 DEF MarkReturnReceived
  <2>3. ret.quantity = o.quantity
    BY <2>1, <2>2 DEF IsReturn
  <2>4. refunded' = refunded
    BY <1>6 DEF MarkReturnReceived
  <2> QED BY <1>0, <2>1, <2>2, <2>3, <2>4
<1>7. ASSUME NEW r \in ReturnIds, DecideReturnShipping(r) \/ RetryReturnRefund(r) PROVE RefundStep
  BY <1>0, <1>7 DEF DecideReturnShipping, RetryReturnRefund
<1>8. ASSUME NEW r \in ReturnIds, restockReturn(r) \/ dispatchReturnShipment(r) \/ closeReturnShipment(r)
      PROVE  RefundStep
  BY <1>8 DEF restockReturn, dispatchReturnShipment, closeReturnShipment, RefundStep
<1>9. ASSUME NEW i \in RefundIds, ReturnRefundAnswered(i) PROVE RefundStep
  BY <1>9, RefundMovesStep DEF ReturnRefundAnswered
<1>10. CASE AdminRequestRefund(soldBy, 1)
  BY <1>10, OneSeller, RefundAsked DEF AdminRequestRefund, Reasons
<1>11. ASSUME NEW i \in RefundIds, SubmitRefund(i) \/ RecordSubmitted(i) \/ PaymentDecides(i)
       PROVE  RefundStep
  BY <1>11, RefundMovesStep
<1>12. CASE UNCHANGED returnsVars
  BY <1>12 DEF returnsVars, RefundStep
<1> QED BY <1>1, <1>2, <1>3, <1>4, <1>5, <1>6, <1>7, <1>8, <1>9, <1>10, <1>11, <1>12 DEF ReturnsStep

(* However many units come back in however many returns, and whatever an   *)
(* admin refunds beside them, the refunds of the vendor order stay within  *)
(* what its buyer paid (requestReturnRefund under the order lock).         *)
THEOREM ReturnsStayWithinTotal == ReturnsSpec => []RefundsWithinTotal
<1>1. ReturnsInit => SumsOK
  BY NothingRefunded DEF ReturnsInit, CompletedInit
<1>2. SumsOK /\ ReturnsInv /\ [ReturnsStep]_returnsVars => SumsOK'
  BY ReturnsRefundStep, RefundStepKeeps
<1>3. SumsOK => RefundsWithinTotal
  BY DEF SumsOK
<1> QED BY <1>1, <1>2, <1>3, ReturnsStart, ReturnsStepKeeps, PTL DEF ReturnsSpec

-----------------------------------------------------------------------------
(* The order while its goods come back.                                    *)

LEMMA ReturnKinds ==
  ASSUME NEW v, NEW x
  PROVE  /\ Settles(v) # Effect("restock_return", x) /\ Settles(v) # Effect("authorize_return_shipment", x)
         /\ Settles(v) # Effect("dispatch_return_shipment", x) /\ Settles(v) # Effect("close_return_shipment", x)
BY DEF Settles, Effect

LEMMA FailedOther ==
  ASSUME LifecycleInv, NEW e, \A v \in VendorOrders : Settles(v) # e, RecordFailure(e)
  PROVE  SameReports(effects')
<1>1. effects' = [pending |-> effects.pending \ {e}, done |-> effects.done, parked |-> effects.parked \cup {e}]
  BY DEF RecordFailure, LifecycleInv, LedgerOK, IsEffects
<1> QED BY <1>1 DEF SameReports, IsEffects

LEMMA ReturnsLifecycle ==
  ASSUME LifecycleInv, [ReturnsStep]_returnsVars PROVE LifecycleInv'
<1> DEFINE Still == UNCHANGED <<orderStatus, voStatus, completed, settled>>
<1>0. SameReports(effects) /\ \A v \in VendorOrders : \A x :
         /\ Settles(v) # Effect("restock_return", x) /\ Settles(v) # Effect("authorize_return_shipment", x)
         /\ Settles(v) # Effect("dispatch_return_shipment", x) /\ Settles(v) # Effect("close_return_shipment", x)
  BY ReturnKinds, SameReportsNow DEF LifecycleInv
<1>1. CASE VerifyDestination
  BY <1>1, NothingMoves DEF VerifyDestination, lifecycleVars
<1>2. ASSUME NEW r \in ReturnIds,
             \/ \E q \in 1 .. Units : CreateReturn(r, q)
             \/ VendorConfirmReturn(r) \/ AdminDecideReturn(r)
      PROVE  LifecycleInv'
  BY <1>2, NothingMoves DEF CreateReturn, VendorConfirmReturn, AdminDecideReturn, transitionReturn, lifecycleVars
<1>3. ASSUME NEW r \in ReturnIds, AdminDecideReturnWithTerms(r) \/ AuthorizeReturnShipping(r) PROVE LifecycleInv'
  <2>1. Still
    BY <1>3 DEF AdminDecideReturnWithTerms, AuthorizeReturnShipping
  <2>2. \E ret : authorizeReturnShipping(r, ret)
    BY <1>3 DEF AdminDecideReturnWithTerms, AuthorizeReturnShipping
  <2>3. PICK x : effects' = effects \/ effects' = Enqueue(effects, {Effect("authorize_return_shipment", x)})
    BY <2>2 DEF authorizeReturnShipping
  <2>4. SameReports(effects')
    BY <1>0, <2>3, EnqueueOther
  <2> QED BY <2>1, <2>4, EffectsMove
<1>4. ASSUME NEW r \in ReturnIds, ReportReturnDispatch(r) \/ MarkLost(r) PROVE LifecycleInv'
  <2>1. Still /\ \/ effects' = Enqueue(effects, {Effect("dispatch_return_shipment", r)})
                 \/ effects' = Enqueue(effects, {Effect("close_return_shipment", r)})
    BY <1>4 DEF ReportReturnDispatch, MarkLost
  <2>2. SameReports(effects')
    BY <1>0, <2>1, EnqueueOther
  <2> QED BY <2>1, <2>2, EffectsMove
<1>5. ASSUME NEW ret, NEW r, NEW es, SameReports(es), requestReturnRefund(r, ret, es) \/ effects' = es, Still
      PROVE  LifecycleInv'
  BY <1>5, RefundCreated, EffectsMove DEF requestReturnRefund
<1>6. ASSUME NEW r \in ReturnIds, NEW s \in 0 .. Units, RecordReturnReceipt(r, s) PROVE LifecycleInv'
  <2>1. PICK ret, new : /\ \A v \in VendorOrders : Settles(v) \notin new
                        /\ requestReturnRefund(r, ret, Enqueue(effects, new)) \/ effects' = Enqueue(effects, new)
    <3>1. PICK ret : \/ requestReturnRefund(r, ret, Enqueue(effects, ReceiptEffects(r, ret, s)))
                     \/ effects' = Enqueue(effects, ReceiptEffects(r, ret, s))
      BY <1>6 DEF RecordReturnReceipt
    <3>2. \A v \in VendorOrders : Settles(v) \notin ReceiptEffects(r, ret, s)
      BY <1>0 DEF ReceiptEffects
    <3> QED BY <3>1, <3>2
  <2>2. SameReports(Enqueue(effects, new))
    BY <1>0, <2>1, EnqueueOther
  <2>3. Still
    BY <1>6 DEF RecordReturnReceipt
  <2> QED BY <1>5, <2>1, <2>2, <2>3
<1>7. ASSUME NEW r \in ReturnIds, NEW s \in 0 .. Units, CorrectReturnReceipt(r, s) PROVE LifecycleInv'
  <2>1. PICK ret, es : /\ es = effects \/ es = Enqueue(effects, {Effect("restock_return", r)})
                       /\ requestReturnRefund(r, ret, es) \/ effects' = es
    BY <1>7 DEF CorrectReturnReceipt
  <2>2. SameReports(es)
    BY <1>0, <2>1, EnqueueOther
  <2>3. Still
    BY <1>7 DEF CorrectReturnReceipt
  <2> QED BY <1>5, <2>1, <2>2, <2>3
<1>8. ASSUME NEW r \in ReturnIds, NEW restock \in BOOLEAN, MarkReturnReceived(r, restock) PROVE LifecycleInv'
  <2>1. PICK ret, new : /\ new = {} \/ new = {Effect("restock_return", r)}
                        /\ requestReturnRefund(r, ret, Enqueue(effects, new))
    BY <1>8 DEF MarkReturnReceived
  <2>2. SameReports(Enqueue(effects, new))
    BY <1>0, <2>1, EnqueueOther
  <2>3. Still
    BY <1>8 DEF MarkReturnReceived
  <2> QED BY <1>5, <2>1, <2>2, <2>3
<1>9. ASSUME NEW r \in ReturnIds, DecideReturnShipping(r) \/ RetryReturnRefund(r) PROVE LifecycleInv'
  <2>1. Still /\ \E ret : requestReturnRefund(r, ret, effects)
    BY <1>9 DEF DecideReturnShipping, RetryReturnRefund
  <2> QED BY <1>0, <1>5, <2>1
<1>10. ASSUME NEW r \in ReturnIds, restockReturn(r) PROVE LifecycleInv'
  <2>1. Still /\ (effects' = effects \/ effects' \in AfterRun(Effect("restock_return", r)))
    BY <1>10 DEF restockReturn
  <2>2. SameReports(effects')
    BY <1>0, <2>1, RunsOf
  <2> QED BY <2>1, <2>2, EffectsMove
<1>11. ASSUME NEW r \in ReturnIds, NEW n, authorizeReturnShipment(r, n) PROVE LifecycleInv'
  <2>1. PICK e : e = Effect("authorize_return_shipment", <<r, n>>)
    OBVIOUS
  <2>2. Still /\ (effects' = MarkDone(effects, e) \/ RecordFailure(e))
    BY <1>11, <2>1 DEF authorizeReturnShipment
  <2>3. SameReports(effects')
    BY <1>0, <2>1, <2>2, MarkDoneOther, FailedOther
  <2> QED BY <2>2, <2>3, EffectsMove
<1>12. ASSUME NEW r \in ReturnIds, dispatchReturnShipment(r) PROVE LifecycleInv'
  <2>1. PICK e : e = Effect("dispatch_return_shipment", r)
    OBVIOUS
  <2>2. Still /\ (effects' = MarkDone(effects, e) \/ effects' \in AfterRun(e) \/ RecordFailure(e))
    BY <1>12, <2>1 DEF dispatchReturnShipment
  <2>3. SameReports(effects')
    BY <1>0, <2>1, <2>2, MarkDoneOther, RunsOf, FailedOther
  <2> QED BY <2>2, <2>3, EffectsMove
<1>13. ASSUME NEW r \in ReturnIds, closeReturnShipment(r) PROVE LifecycleInv'
  <2>1. PICK e : e = Effect("close_return_shipment", r)
    OBVIOUS
  <2>2. Still /\ (effects' = MarkDone(effects, e) \/ RecordFailure(e))
    BY <1>13, <2>1 DEF closeReturnShipment
  <2>3. SameReports(effects')
    BY <1>0, <2>1, <2>2, MarkDoneOther, FailedOther
  <2> QED BY <2>2, <2>3, EffectsMove
<1>14. ASSUME NEW i \in RefundIds, ReturnRefundAnswered(i) PROVE LifecycleInv'
  BY <1>14, RefundMoves DEF ReturnRefundAnswered
<1>15. CASE AdminRequestRefund(soldBy, 1)
  BY <1>15, AdminAsks
<1>16. ASSUME NEW i \in RefundIds, SubmitRefund(i) \/ RecordSubmitted(i) \/ PaymentDecides(i)
       PROVE  LifecycleInv'
  BY <1>16, RefundMoves
<1>17. CASE UNCHANGED returnsVars
  BY <1>17, NothingMoves DEF returnsVars, lifecycleVars
<1> QED BY <1>1, <1>2, <1>3, <1>4, <1>6, <1>7, <1>8, <1>9, <1>10, <1>11, <1>12, <1>13, <1>14, <1>15, <1>16, <1>17 DEF ReturnsStep

LEMMA CompletedStart ==
  ASSUME CompletedInit PROVE LifecycleInv
<1>1. LifecycleOK
  BY Ranks DEF CompletedInit, LifecycleOK, NotAhead, Statuses
<1>2. LedgerOK
  BY DEF CompletedInit, LedgerOK, IsEffects, SalesReachLedger
<1> QED BY <1>1, <1>2 DEF LifecycleInv

-----------------------------------------------------------------------------
(* The run: one component moves, the others rest where they started.       *)

PackagesInv == ShipmentInv /\ CaseInv /\ FenceInv

MCInv ==
    /\ LifecycleInv /\ SumsOK /\ PackagesInv /\ RecordsInv
    /\ focus = "returns" => ReturnsInv

\* A shop that sent nothing yet has no case and fences nothing.
LEMMA NoPackageYet ==
  ASSUME attempts = <<>>, outbox = {}, DeliveryInit PROVE PackagesInv
<1>1. handing = {} /\ claim = 0 /\ cancel = NoCancellation /\ dx = NoCase /\ replacing = "none"
  BY DEF DeliveryInit, CancelInit
<1>2. ShipmentInv /\ Len(attempts) <= 1
  BY <1>1 DEF ShipmentInv, Attempts
<1>3. CaseInv
  BY <1>1, <1>2 DEF CaseInv, CaseOf, NoCase, IsCase, CaseStatuses, NoCaseYet
<1>4. FenceInv
  BY <1>1 DEF FenceInv, CancelIsRecord, NoCancellation, CancellationOpen
<1> QED BY <1>2, <1>3, <1>4 DEF PackagesInv

LEMMA MCStart ==
  ASSUME MCInit PROVE MCInv
<1>1. LifecycleInv /\ SumsOK /\ (focus = "delivery" => PackagesInv) /\ (focus = "returns" => ReturnsInv)
  <2>1. CASE focus = "delivery"
    <3>1. ExceptionInit /\ (focus = "returns" => FALSE)
      BY <2>1 DEF MCInit, ExceptionInit
    <3>2. SumsOK
      BY <3>1, NothingRefunded DEF ExceptionInit, PaidInit
    <3> QED BY <3>1, <3>2, ExceptionStart DEF ExceptionInv, PackagesInv
  <2>2. CASE focus = "returns"
    <3>1. ReturnsInit
      BY <2>2 DEF MCInit, ReturnsInit
    <3>2. SumsOK
      BY <3>1, NothingRefunded DEF ReturnsInit, CompletedInit
    <3> QED BY <2>2, <3>1, <3>2, CompletedStart, ReturnsStart DEF ReturnsInit
  <2>3. CASE focus \notin {"delivery", "returns"}
    <3>1. focus \in Components
      BY DEF MCInit
    <3>2. focus \in {"orders", "shipment"}
      BY <2>3, <3>1, ComponentsAssumption
    <3>3. LifecycleInit
      BY <3>2 DEF MCInit
    <3>4. OrdersInit
      BY <3>3 DEF MCInit, OrdersInit
    <3>5. SumsOK
      BY <3>3, NothingRefunded DEF LifecycleInit
    <3> QED BY <2>3, <3>4, <3>5, OrdersStart
  <2> QED BY <2>1, <2>2, <2>3
<1>2. CASE focus # "delivery"
  <2>1. attempts = <<>> /\ outbox = {} /\ DeliveryInit
    BY <1>2 DEF MCInit, NoShipmentInit
  <2>2. PackagesInv
    BY <2>1, NoPackageYet
  <2> QED BY <1>1, <2>2, RecordsStart DEF MCInv, MCInit
<1> QED BY <1>1, <1>2, RecordsStart DEF MCInv, MCInit

\* What rests keeps its invariant.
LEMMA PackagesRest ==
  ASSUME PackagesInv, UNCHANGED parcelVars PROVE PackagesInv'
<1>1. UNCHANGED <<attempts, outbox, handing, claim, cancel, dx, replacing>>
  BY DEF parcelVars, shipmentVars, cancelVars, deliveryVars
<1>2. ShipmentInv' /\ ShipmentKept /\ handing' \subseteq handing
  BY <1>1, ShipmentRests DEF PackagesInv
<1>3. CaseInv'
  BY <1>1, <1>2, CaseRests DEF PackagesInv
<1>4. CancelIsRecord' /\ (CancellationOpen' => CancellationOpen)
  BY <1>1 DEF PackagesInv, FenceInv, CancelIsRecord, CancellationOpen
<1>5. FenceInv'
  BY <1>1, <1>2, <1>4, FenceRests DEF PackagesInv
<1> QED BY <1>2, <1>3, <1>5 DEF PackagesInv

LEMMA RecordsRest ==
  ASSUME RecordsInv, UNCHANGED recordVars PROVE RecordsInv'
BY RecordsStep

LEMMA MCStep ==
  ASSUME MCInv, [MCNext]_mcVars PROVE MCInv'
<1>1. CASE Only("orders") /\ OrdersNext
  <2>1. focus' = "orders" /\ UNCHANGED parcelVars /\ UNCHANGED recordVars
    BY <1>1 DEF Only
  <2>2. LifecycleInv' /\ SumsOK'
    BY <1>1, OrdersStep, OrdersRefundStep, RefundStepKeeps DEF MCInv
  <2> QED BY <2>1, <2>2, PackagesRest, RecordsRest DEF MCInv
<1>2. CASE Only("delivery") /\ ExceptionStep
  <2>1. focus' = "delivery" /\ UNCHANGED recordVars
    BY <1>2 DEF Only
  <2>2. ExceptionInv' /\ SumsOK'
    BY <1>2, ExceptionSteps, ExceptionRefundStep, RefundStepKeeps DEF MCInv, ExceptionInv, PackagesInv
  <2> QED BY <2>1, <2>2, RecordsRest DEF MCInv, ExceptionInv, PackagesInv
<1>3. CASE Only("shipment") /\ RecordsNext
  <2>1. focus' = "shipment" /\ UNCHANGED parcelVars /\ UNCHANGED lifecycleVars
    BY <1>3 DEF Only
  <2>2. LifecycleInv'
    BY <2>1, NothingMoves DEF MCInv, lifecycleVars
  <2>3. SumsOK'
    BY <2>1, RefundStepKeeps DEF MCInv, RefundStep, lifecycleVars
  <2>4. RecordsInv'
    BY <1>3, RecordsStep DEF MCInv
  <2> QED BY <2>1, <2>2, <2>3, <2>4, PackagesRest DEF MCInv
<1>4. CASE Only("returns") /\ ReturnsStep
  <2>1. focus = "returns" /\ UNCHANGED parcelVars /\ UNCHANGED recordVars
    BY <1>4 DEF Only
  <2>2. LifecycleInv' /\ SumsOK' /\ ReturnsInv'
    BY <1>4, <2>1, ReturnsLifecycle, ReturnsRefundStep, RefundStepKeeps, ReturnsStepKeeps DEF MCInv
  <2> QED BY <2>1, <2>2, PackagesRest, RecordsRest DEF MCInv
<1>5. CASE UNCHANGED mcVars
  <2>1. focus' = focus /\ UNCHANGED parcelVars /\ UNCHANGED recordVars /\ UNCHANGED lifecycleVars /\ UNCHANGED returnVars
    BY <1>5 DEF mcVars, ordersVars
  <2>2. LifecycleInv'
    BY <2>1, NothingMoves DEF MCInv, lifecycleVars
  <2>3. SumsOK'
    BY <2>1, RefundStepKeeps DEF MCInv, RefundStep, lifecycleVars
  <2>4. focus' = "returns" => ReturnsInv'
    BY <2>1, ReturnsRest DEF MCInv, lifecycleVars, returnVars
  <2> QED BY <2>1, <2>2, <2>3, <2>4, PackagesRest, RecordsRest DEF MCInv
<1> QED BY <1>1, <1>2, <1>3, <1>4, <1>5 DEF MCNext

LEMMA MCAlways == MCSpec => []MCInv
BY MCStart, MCStep, PTL DEF MCSpec

(* Whichever component moves, the refunds of the order and of each vendor  *)
(* order stay within what its buyer paid (refundableFor).                  *)
THEOREM OrderRefundsWithinTotal == MCSpec => []RefundsWithinTotal
<1>1. MCInv => RefundsWithinTotal
  BY DEF MCInv, SumsOK
<1> QED BY <1>1, MCAlways, PTL

(* Whichever component moves, the parent order is never ahead of its       *)
(* packages and no completed sale misses the ledger (recomputeOrderStatus, *)
(* settleVendorOrder).                                                     *)
THEOREM OrderPackagesDecide == MCSpec => []PackagesDecideOrder
<1>1. MCInv => PackagesDecideOrder
  BY LifecycleDecides DEF MCInv
<1> QED BY <1>1, MCAlways, PTL

(* A loss is declared on files that are still there, a carrier's decision  *)
(* is applied once, and a return is refunded once (attachEvidence,         *)
(* ProcessCarrierWebhook, requestReturnRefund).                            *)
THEOREM ParcelsAlwaysCountOnce == MCSpec => []ParcelsCountOnce
<1>1. MCInv => LostIsProven /\ EachDecisionAppliedOnce
  BY DEF MCInv, RecordsInv, ConfirmedLoss, KeptFiles, CountedOnce, LostIsProven, EachDecisionAppliedOnce
<1>2. MCInv => (focus = "returns" => OneRefundPerReturn)
  BY ReturnsAddUp DEF MCInv
<1> QED BY <1>1, <1>2, MCAlways, PTL DEF ParcelsCountOnce

(* Whichever component moves, and whatever disputes are open, an open      *)
(* cancellation and a granted handover exclude each other, and a refund of *)
(* the delivery case rules a redelivery out: two conjuncts of              *)
(* GoodsAndMoneyAgree (ClaimHandover, RefundBuyer,                         *)
(* createReplacementAttempt).                                              *)
THEOREM OrderHandoverIsFenced == MCSpec => [](FenceHolds /\ RefundedIsNotRedelivered)
<1>1. MCInv => ExceptionInv
  BY DEF MCInv, PackagesInv, ExceptionInv
<1>2. MCInv => FenceHolds /\ RefundedIsNotRedelivered
  BY <1>1, FenceFollows, RedeliveryFollows
<1> QED BY <1>2, MCAlways, PTL
=============================================================================
